---- MODULE Spec2Model ----
(***************************************************************************)
(* rlib::JsonT (src/Json.h): the tagged value type, its accessors, the     *)
(* regex driven parser, the serializer and the JSON Pointer resolver.      *)
(*                                                                         *)
(* A JsonT object is a cell of a heap; the elements of its m_array and the *)
(* mapped values of its m_map are cells of their own, so that copies,      *)
(* moves, destruction and references (JsonT&, JsonT* in State::parents)    *)
(* are what they are in the program.  A std::string is a sequence of       *)
(* bytes, a byte is a one-character string ("a", "{") or the name of a     *)
(* byte that has no printable character ("LF", "CR", "TAB", "BS", "SP",    *)
(* "x195").                                                                *)
(* std::intmax_t is 64 bits wide: an Int payload is kept as sign and       *)
(* decimal digits, so that values beyond 32 bits are exact.                *)
(***************************************************************************)
EXTENDS Integers, Sequences, FiniteSets, TLC

VARIABLES
  heap,   \* the cells of the caller's JsonT objects and of their elements
  last,   \* the last call made on them: its arguments and what it returned
  state   \* the State of the call of parse that is under way, or its end

\* ------------------------------------------------------------------ bounds
\* Elements (of arrays and maps, at any depth) the caller's variable a owns
\* while it is the only variable, and that a and b own together.
MaxElements == 3
MaxElementsTwo == 2
\* Largest index used by the indexed accessors of the value-tree specification.
MaxIndex == 2

\* -------------------------------------------------------------- characters
Digits == {"0", "1", "2", "3", "4", "5", "6", "7", "8", "9"}

\* \s of ECMAScript regular expressions, within the model's alphabet.
IsSpace(c) == c \in {"SP", "TAB", "LF", "CR"}

\* The characters of the bytes 32..126.
Printable ==
  <<"SP", "!", "\"", "#", "$", "%", "&", "'", "(", ")", "*", "+", ",", "-", ".", "/",
    "0", "1", "2", "3", "4", "5", "6", "7", "8", "9", ":", ";", "<", "=", ">", "?",
    "@", "A", "B", "C", "D", "E", "F", "G", "H", "I", "J", "K", "L", "M", "N", "O",
    "P", "Q", "R", "S", "T", "U", "V", "W", "X", "Y", "Z", "[", "\\", "]", "^", "_",
    "x96", "a", "b", "c", "d", "e", "f", "g", "h", "i", "j", "k", "l", "m", "n", "o",
    "p", "q", "r", "s", "t", "u", "v", "w", "x", "y", "z", "{", "|", "}", "~">>

\* The character of a byte; a byte without a name of its own is "x" and its
\* decimal value ("x195").
Chr(n) ==
  IF n \in 32..126 THEN Printable[n - 31]
  ELSE CASE n = 8 -> "BS" [] n = 9 -> "TAB" [] n = 10 -> "LF" [] n = 13 -> "CR"
         [] OTHER -> "x" \o ToString(n)

\* The byte value of a character (std::string compares bytes).
Code(c) == CHOOSE n \in 0..255 : Chr(n) = c

DigitVal(c) == Code(c) - 48

DigitChar(d) == CHOOSE c \in Digits : DigitVal(c) = d

\* std::string::operator< : lexicographic on bytes.
RECURSIVE StrLess(_, _)
StrLess(s, t) ==
  IF t = <<>> THEN FALSE
  ELSE IF s = <<>> THEN TRUE
  ELSE IF Code(Head(s)) # Code(Head(t)) THEN Code(Head(s)) < Code(Head(t))
  ELSE StrLess(Tail(s), Tail(t))

\* ----------------------------------------------------------------- numbers
\* A magnitude is a sequence of decimal digits without leading zeros.
RECURSIVE StripZeros(_)
StripZeros(d) ==
  IF Len(d) > 1 /\ Head(d) = 0 THEN StripZeros(Tail(d)) ELSE d

\* 2^63 - 1 and 2^63, the bounds of std::intmax_t.
IntMaxMag == <<9,2,2,3,3,7,2,0,3,6,8,5,4,7,7,5,8,0,7>>
IntMinMag == <<9,2,2,3,3,7,2,0,3,6,8,5,4,7,7,5,8,0,8>>

RECURSIVE MagLessEq(_, _)
MagLessEq(x, y) ==
  IF Len(x) # Len(y) THEN Len(x) < Len(y)
  ELSE IF x = <<>> THEN TRUE
  ELSE IF Head(x) # Head(y) THEN Head(x) < Head(y)
  ELSE MagLessEq(Tail(x), Tail(y))

MkInt(neg, mag) ==
  LET m == StripZeros(mag) IN [neg |-> neg /\ m # <<0>>, mag |-> m]

IntZero == MkInt(FALSE, <<0>>)
IntOne == MkInt(FALSE, <<1>>)

\* A double, as the decimal value mag * 10^exp it stands for (mag without
\* trailing zeros); the rounding of literals of more than 15 significant
\* digits is not represented.
RECURSIVE StripTrailing(_, _)
StripTrailing(mag, exp) ==
  IF Len(mag) > 1 /\ mag[Len(mag)] = 0
  THEN StripTrailing(SubSeq(mag, 1, Len(mag) - 1), exp + 1)
  ELSE [mag |-> mag, exp |-> IF mag = <<0>> THEN 0 ELSE exp]

MkFloat(neg, mag, exp) ==
  LET n == StripTrailing(StripZeros(mag), exp)
  IN [neg |-> neg, mag |-> n.mag, exp |-> n.exp]

FloatZero == MkFloat(FALSE, <<0>>, 0)

\* double == double: -0.0 equals 0.0.
FloatEq(x, y) ==
  /\ x.mag = y.mag
  /\ x.exp = y.exp
  /\ (x.neg = y.neg \/ x.mag = <<0>>)

\* ------------------------------------------------------------------- cells
\* One JsonT object: m_type and the union's active member.  "Free" marks
\* storage that holds no object.
Cell(t, b, f, i, s, a, m) ==
  [type |-> t, b |-> b, f |-> f, i |-> i, s |-> s, a |-> a, m |-> m]

FreeCell == Cell("Free", FALSE, FloatZero, IntZero, <<>>, <<>>, <<>>)
\* Storage of a variable whose object is not constructed (or is destroyed).
NoObject == Cell("NoObject", FALSE, FloatZero, IntZero, <<>>, <<>>, <<>>)
NullCell == Cell("Null", FALSE, FloatZero, IntZero, <<>>, <<>>, <<>>)
BoolCell(b) == Cell("Bool", b, FloatZero, IntZero, <<>>, <<>>, <<>>)
FloatCell(f) == Cell("Float", FALSE, f, IntZero, <<>>, <<>>, <<>>)
IntCell(i) == Cell("Int", FALSE, FloatZero, i, <<>>, <<>>, <<>>)
StringCell(s) == Cell("String", FALSE, FloatZero, IntZero, s, <<>>, <<>>)
ArrayCell(a) == Cell("Array", FALSE, FloatZero, IntZero, <<>>, a, <<>>)
MapCell(m) == Cell("Map", FALSE, FloatZero, IntZero, <<>>, <<>>, m)

\* The static member m_emptyJson.
EmptyJson == 0

\* -------------------------------------------------------------------- heap
\* A heap maps 0..n to cells; cell 0 is m_emptyJson.
NewHeap(n) == [x \in 0..n |-> IF x = EmptyJson THEN NullCell ELSE FreeCell]

FreeIds(h) == {x \in DOMAIN h : h[x].type = "Free"}

\* Storage for one more JsonT (a vector slot, a map node).
Alloc(h) == CHOOSE x \in FreeIds(h) : \A y \in FreeIds(h) : x <= y

\* The elements of m_array / the mapped values of m_map of cell x.
Children(h, x) ==
  IF h[x].type = "Array" THEN {h[x].a[k] : k \in DOMAIN h[x].a}
  ELSE IF h[x].type = "Map" THEN {h[x].m[k].v : k \in DOMAIN h[x].m}
  ELSE {}

RECURSIVE Descendants(_, _)
Descendants(h, x) ==
  LET cs == Children(h, x)
  IN cs \cup UNION {Descendants(h, c) : c \in cs}

Subtree(h, x) == {x} \cup Descendants(h, x)

\* Position of key in the (sorted) entries of a std::map, 0 when absent.
MapFind(m, key) ==
  IF \E k \in DOMAIN m : m[k].k = key
  THEN CHOOSE k \in DOMAIN m : m[k].k = key
  ELSE 0

\* An insertion that keeps the entries in the order they were added (not what
\* std::map does).
MapInsertAppend(m, key, v) == Append(m, [k |-> key, v |-> v])

\* std::map insertion keeps the entries in ascending key order.
MapInsert(m, key, v) ==
  LET n == Cardinality({k \in DOMAIN m : StrLess(m[k].k, key)})
  IN SubSeq(m, 1, n) \o <<[k |-> key, v |-> v]>> \o SubSeq(m, n + 1, Len(m))

SeqRemove(s, k) == SubSeq(s, 1, k - 1) \o SubSeq(s, k + 1, Len(s))

\* ------------------------------------------------- construction, assignment
\* The children of cell x in iteration order.
ChildSeq(h, x) ==
  IF h[x].type = "Array" THEN h[x].a
  ELSE IF h[x].type = "Map" THEN [k \in DOMAIN h[x].m |-> h[x].m[k].v]
  ELSE <<>>

\* clear(): the active member is destroyed, which runs ~JsonT() (clear() and
\* release of the storage) on every element, and m_type becomes Null.
RECURSIVE clear(_, _), DestroyAll(_, _)
clear(h, this) ==
  [DestroyAll(h, ChildSeq(h, this)) EXCEPT ![this] = NullCell]

DestroyAll(h, ids) ==
  IF ids = <<>> THEN h
  ELSE DestroyAll([clear(h, Head(ids)) EXCEPT ![Head(ids)] = FreeCell], Tail(ids))

\* operator=(const JsonT& s) where s is a temporary scalar, given as a cell:
\* clear(), then placement-new of the scalar.
AssignScalar(h, this, cell) == [clear(h, this) EXCEPT ![this] = cell]

\* operator=(const JsonT& s), s a cell that clear() leaves alive (s is not a
\* descendant of this).  The copy constructors of std::vector and std::map
\* copy-construct every element: JsonT(const JsonT&) starts Null and assigns.
\* A vector copy that takes over the source's elements instead of copying
\* them (not what the code does).
CopyVectorShallow(h, this, elems) == [h EXCEPT ![this].a = elems]

RECURSIVE CopyAssign(_, _, _), CopyVector(_, _, _), CopyMap(_, _, _)
CopyAssign(h, this, s) ==
  IF this = s THEN h
  ELSE LET h1 == clear(h, this)
       IN CASE h1[s].type = "Array" ->
                 CopyVector([h1 EXCEPT ![this] = ArrayCell(<<>>)], this, h1[s].a)
            [] h1[s].type = "Map" ->
                 CopyMap([h1 EXCEPT ![this] = MapCell(<<>>)], this, h1[s].m)
            [] OTHER -> [h1 EXCEPT ![this] = h1[s]]

CopyVector(h, this, elems) ==
  IF elems = <<>> THEN h
  ELSE LET n == Alloc(h)
           h1 == [h EXCEPT ![n] = NullCell, ![this].a = Append(@, n)]
       IN CopyVector(CopyAssign(h1, n, Head(elems)), this, Tail(elems))

CopyMap(h, this, entries) ==
  IF entries = <<>> THEN h
  ELSE LET n == Alloc(h)
           h1 == [h EXCEPT ![n] = NullCell,
                           ![this].m = Append(@, [k |-> Head(entries).k, v |-> n])]
       IN CopyMap(CopyAssign(h1, n, Head(entries).v), this, Tail(entries))

\* A move constructor that resets the source to Null (not what the code
\* does): the property of moves must tell it from MoveConstruct.
MoveConstructResetting(h, this, s, keep) ==
  [h EXCEPT ![this] = h[s], ![s] = NullCell]

\* JsonT(JsonT&& s): m_type is taken from s and the payload is moved; s.m_type
\* is not written.  A moved-from vector or map is empty; a moved-from
\* std::string is valid but unspecified: empty, or (keep) still its characters.
MoveConstruct(h, this, s, keep) ==
  [h EXCEPT ![this] = h[s],
            ![s] = CASE h[s].type = "String" ->
                          StringCell(IF keep THEN h[s].s ELSE <<>>)
                     [] h[s].type = "Array" -> ArrayCell(<<>>)
                     [] h[s].type = "Map" -> MapCell(<<>>)
                     [] OTHER -> h[s]]

\* operator=(JsonT&& s), s not a descendant of this.
MoveAssign(h, this, s, keep) ==
  IF this = s THEN h ELSE MoveConstruct(clear(h, this), this, s, keep)

\* ----------------------------------------------------------- map accessors
\* An ensureMap that starts a new map whatever the receiver holds (not what
\* the code does).
ensureMapAlways(h, this) == [clear(h, this) EXCEPT ![this] = MapCell(<<>>)]

\* Map& ensureMap()
ensureMap(h, this) ==
  IF h[this].type # "Map" THEN [clear(h, this) EXCEPT ![this] = MapCell(<<>>)]
  ELSE h

\* get<Map>(): m_map, or the static m_emptyMap.
GetMap(h, this) == IF h[this].type = "Map" THEN h[this].m ELSE <<>>

\* A const operator[] that answers an absent key with the receiver itself
\* (not what the code does) instead of the shared m_emptyJson.
SubscriptKeyConstSelf(h, this, key) ==
  LET m == GetMap(h, this)
      i == MapFind(m, key)
  IN IF i # 0 THEN m[i].v ELSE this

\* const JsonT& operator[](const std::string& key) const
SubscriptKeyConst(h, this, key) ==
  LET m == GetMap(h, this)
      i == MapFind(m, key)
  IN IF i # 0 THEN m[i].v ELSE EmptyJson

\* JsonT& operator[](const std::string& key): ensureMap()[key]; std::map's
\* operator[] inserts a default-constructed (Null) JsonT under a new key.
SubscriptKey(h, this, key) ==
  LET h1 == ensureMap(h, this)
      i == MapFind(h1[this].m, key)
      n == Alloc(h1)
  IN IF i # 0 THEN [h |-> h1, ref |-> h1[this].m[i].v]
     ELSE [h |-> [h1 EXCEPT ![n] = NullCell,
                            ![this].m = MapInsert(@, key, n)],
           ref |-> n]

NoThrow(ref) == [throws |-> "", ref |-> ref]
Throw(what) == [throws |-> what, ref |-> EmptyJson]

\* JsonT& at(const std::string& key)
atKey(h, this, key) ==
  IF h[this].type # "Map" THEN Throw("out_of_range")
  ELSE LET i == MapFind(h[this].m, key)
       IN IF i = 0 THEN Throw("out_of_range") ELSE NoThrow(h[this].m[i].v)

\* bool erase(const std::string& key): std::map::erase destroys the entry.
eraseKey(h, this, key) ==
  LET i == IF h[this].type = "Map" THEN MapFind(h[this].m, key) ELSE 0
  IN IF i = 0 THEN [h |-> h, ret |-> FALSE]
     ELSE [h |-> [DestroyAll(h, <<h[this].m[i].v>>)
                    EXCEPT ![this].m = SeqRemove(@, i)],
           ret |-> TRUE]

\* --------------------------------------------------------- array accessors
ensureArray(h, this) ==
  IF h[this].type # "Array" THEN [clear(h, this) EXCEPT ![this] = ArrayCell(<<>>)]
  ELSE h

\* get<Array>(): m_array, or the static m_emptyArray.
GetArray(h, this) == IF h[this].type = "Array" THEN h[this].a ELSE <<>>

\* A size_t made from an int is compared with a size: a negative int has
\* become a value of at least 2^63.
SizeTGreaterEq(index, size) == index < 0 \/ index >= size

\* const JsonT& operator[](size_t index) const  (elements are 0-based)
SubscriptIndexConst(h, this, index) ==
  LET a == GetArray(h, this)
  IN IF ~SizeTGreaterEq(index, Len(a)) THEN a[index + 1] ELSE EmptyJson

\* std::vector::resize(n) for n above the size: value-initialized (Null)
\* elements are appended.
RECURSIVE Resize(_, _, _)
Resize(h, this, n) ==
  IF Len(h[this].a) >= n THEN h
  ELSE LET c == Alloc(h)
       IN Resize([h EXCEPT ![c] = NullCell, ![this].a = Append(@, c)], this, n)

\* An indexed write that always starts from a fresh array (not what the code
\* does): the property of indexed writes must tell it from SubscriptIndex.
SubscriptIndexFresh(h, this, index) ==
  LET h1 == [clear(h, this) EXCEPT ![this] = ArrayCell(<<>>)]
      h2 == Resize(h1, this, index + 1)
  IN [h |-> h2, ref |-> h2[this].a[index + 1]]

\* JsonT& operator[](size_t index)
SubscriptIndex(h, this, index) ==
  LET h1 == ensureArray(h, this)
      h2 == IF index >= Len(h1[this].a) THEN Resize(h1, this, index + 1) ELSE h1
  IN [h |-> h2, ref |-> h2[this].a[index + 1]]

\* An at(index) that answers m_emptyJson instead of throwing on a receiver
\* that is no Array (not what the code does).
atIndexAnyType(h, this, index) ==
  IF SizeTGreaterEq(index, Len(GetArray(h, this))) /\ h[this].type = "Array"
  THEN Throw("out_of_range")
  ELSE NoThrow(SubscriptIndexConst(h, this, index))

\* JsonT& at(size_t index)
atIndex(h, this, index) ==
  IF h[this].type # "Array" THEN Throw("out_of_range")
  ELSE IF SizeTGreaterEq(index, Len(h[this].a)) THEN Throw("out_of_range")
  ELSE NoThrow(h[this].a[index + 1])

\* std::vector::erase(pos): every later element is move-assigned one slot
\* down, then the last slot is destroyed.
RECURSIVE ShiftDown(_, _, _)
ShiftDown(h, a, k) ==
  IF k >= Len(a) THEN h
  ELSE ShiftDown(MoveAssign(h, a[k], a[k + 1], FALSE), a, k + 1)

\* An erase(index) that drops the last element whatever the index (not what
\* the code does).
eraseIndexLast(h, this, index) ==
  IF h[this].type # "Array" \/ SizeTGreaterEq(index, Len(h[this].a))
  THEN [h |-> h, ret |-> FALSE]
  ELSE LET a == h[this].a
       IN [h |-> [DestroyAll(h, <<a[Len(a)]>>)
                    EXCEPT ![this].a = SubSeq(a, 1, Len(a) - 1)],
           ret |-> TRUE]

\* bool erase(size_t index)
eraseIndex(h, this, index) ==
  IF h[this].type # "Array" \/ SizeTGreaterEq(index, Len(h[this].a))
  THEN [h |-> h, ret |-> FALSE]
  ELSE LET a == h[this].a
           h1 == ShiftDown(h, a, index + 1)
       IN [h |-> [DestroyAll(h1, <<a[Len(a)]>>)
                    EXCEPT ![this].a = SubSeq(a, 1, Len(a) - 1)],
           ret |-> TRUE]

\* -------------------------------------------------------------- comparison
\* The value a cell holds, as a tree without addresses: what operator==
\* compares (m_type first, then the active member; vectors and maps
\* element by element).
RECURSIVE ValueOf(_, _)
ValueOf(h, x) ==
  LET c == h[x]
  IN Cell(c.type, c.b,
          [c.f EXCEPT !.neg = c.f.neg /\ c.f.mag # <<0>>],
          c.i, c.s,
          [k \in DOMAIN c.a |-> ValueOf(h, c.a[k])],
          [k \in DOMAIN c.m |-> [k |-> c.m[k].k, v |-> ValueOf(h, c.m[k].v)]])

\* bool operator==(const JsonT& s) const, between cells of two heaps.
JsonEq(h1, x, h2, y) == ValueOf(h1, x) = ValueOf(h2, y)

isNull(h, this) == h[this].type = "Null"

\* template operator=(const S& s): *this = JsonT(s), a move assignment from
\* a temporary, which is destroyed at the end of the statement.
AssignLiteral(h, this, lit) ==
  LET t == Alloc(h)
      h1 == MoveAssign([h EXCEPT ![t] = lit], this, t, FALSE)
  IN [h1 EXCEPT ![t] = FreeCell]

\* =================================================================== parse
\* ---------------------------------------------------------- regex helpers
\* regex("\n") searched from it: one past the first line feed, or cend().
LineEnd(json, it) ==
  IF \E p \in it..Len(json) : json[p] = "LF"
  THEN 1 + CHOOSE p \in it..Len(json) :
             json[p] = "LF" /\ \A q \in it..(p - 1) : json[q] # "LF"
  ELSE Len(json) + 1

\* regex([^\s]) has a match in [it, itLineEnd).
HasNonSpace(json, it, itLineEnd) ==
  \E p \in it..(itLineEnd - 1) : ~IsSpace(json[p])

\* Where ^\s* ends.
SkipSpace(json, it, itLineEnd) ==
  CHOOSE p \in it..(itLineEnd - 1) :
    ~IsSpace(json[p]) /\ \A q \in it..(p - 1) : IsSpace(json[q])

\* The characters of word stand at p, before stop.
Matches(json, p, stop, word) ==
  /\ p + Len(word) <= stop
  /\ SubSeq(json, p, p + Len(word) - 1) = word

\* Where [0-9]* ends.
RECURSIVE DigitsEnd(_, _, _)
DigitsEnd(json, p, stop) ==
  IF p < stop /\ json[p] \in Digits THEN DigitsEnd(json, p + 1, stop) ELSE p

\* Where -?[0-9]+(\.[0-9]*)?([eE][+-]?[0-9]+)? ends when matched at p; p
\* when it does not match.
NumberEnd(json, p, stop) ==
  LET q0 == IF p < stop /\ json[p] = "-" THEN p + 1 ELSE p
      q1 == DigitsEnd(json, q0, stop)
      q2 == IF q1 < stop /\ json[q1] = "." THEN DigitsEnd(json, q1 + 1, stop) ELSE q1
      q3 == IF q2 < stop /\ json[q2] \in {"e", "E"}
            THEN IF q2 + 1 < stop /\ json[q2 + 1] \in {"+", "-"} THEN q2 + 2 ELSE q2 + 1
            ELSE q2
      q4 == DigitsEnd(json, q3, stop)
  IN IF q1 = q0 THEN p
     ELSE IF q3 > q2 /\ q4 > q3 THEN q4
     ELSE q2

\* The first position from p on where word stands, or 0.
Find(json, p, word) ==
  LET hits == {q \in p..(Len(json) + 1) : Matches(json, q, Len(json) + 1, word)}
  IN IF hits = {} THEN 0 ELSE CHOOSE q \in hits : \A r \in hits : q <= r

\* regex_replace(s, regex(pat), dst): every occurrence, left to right, from
\* position p on.
RECURSIVE ReplaceFrom(_, _, _, _)
ReplaceFrom(s, p, pat, dst) ==
  IF p > Len(s) THEN <<>>
  ELSE IF Matches(s, p, Len(s) + 1, pat)
  THEN dst \o ReplaceFrom(s, p + Len(pat), pat, dst)
  ELSE <<s[p]>> \o ReplaceFrom(s, p + 1, pat, dst)

\* (The text is evaluated once, as the value text.)
ReplaceAll(s, pat, dst) ==
  CHOOSE r \in {ReplaceFrom(text, 1, pat, dst) : text \in {s}} : TRUE

\* ----------------------------------------------------------------- numbers
HexLower == <<"0", "1", "2", "3", "4", "5", "6", "7", "8", "9", "a", "b", "c", "d", "e", "f">>
HexUpper == <<"0", "1", "2", "3", "4", "5", "6", "7", "8", "9", "A", "B", "C", "D", "E", "F">>

IsHex(c) == \E k \in 1..16 : c = HexLower[k] \/ c = HexUpper[k]

HexVal(c) == (CHOOSE k \in 1..16 : c = HexLower[k] \/ c = HexUpper[k]) - 1

\* stoi(s, nullptr, 16) of four hexadecimal digits at p.
Hex4(json, p) ==
  ((HexVal(json[p]) * 16 + HexVal(json[p + 1])) * 16 + HexVal(json[p + 2])) * 16
    + HexVal(json[p + 3])

DigitVals(s) == [k \in DOMAIN s |-> DigitVal(s[k])]

\* ^-?[0-9]+$
IsIntegerText(s) ==
  LET d == IF s # <<>> /\ Head(s) = "-" THEN Tail(s) ELSE s
  IN d # <<>> /\ \A k \in DOMAIN d : d[k] \in Digits

\* ^[0-9]+$
IsDigitsText(s) == s # <<>> /\ \A k \in DOMAIN s : s[k] \in Digits

\* The value of a decimal exponent, saturated far outside the range of a
\* double.
ExponentCap == 100000

RECURSIVE DecimalCapped(_, _)
DecimalCapped(d, acc) ==
  IF d = <<>> THEN acc
  ELSE DecimalCapped(Tail(d), IF acc * 10 + Head(d) > ExponentCap THEN ExponentCap
                               ELSE acc * 10 + Head(d))

\* The first 17 significant digits of DBL_MAX (1.7976931348623157e308) and
\* of DBL_MIN (2.2250738585072014e-308).
DblMaxMag == <<1,7,9,7,6,9,3,1,3,4,8,6,2,3,1,5,7>>
DblMinMag == <<2,2,2,5,0,7,3,8,5,8,5,0,7,2,0,1,4>>
DblMaxExp == 308

\* x < y for digit sequences read as fractions 0.x and 0.y.
RECURSIVE FracLess(_, _)
FracLess(x, y) ==
  IF y = <<>> THEN FALSE
  ELSE IF x = <<>> THEN \E k \in DOMAIN y : y[k] # 0
  ELSE IF Head(x) # Head(y) THEN Head(x) < Head(y)
  ELSE FracLess(Tail(x), Tail(y))

\* strtod reports ERANGE: the value is above DBL_MAX, or is not zero and
\* below DBL_MIN.
FloatOutOfRange(f) ==
  LET e10 == Len(f.mag) - 1 + f.exp
  IN /\ f.mag # <<0>>
     /\ \/ e10 > DblMaxExp
        \/ e10 = DblMaxExp /\ FracLess(DblMaxMag, f.mag)
        \/ e10 < -DblMaxExp
        \/ e10 = -DblMaxExp /\ FracLess(f.mag, DblMinMag)

\* stod(s): [throws, f].  The tokens parse hands to stod are a match of the
\* number alternative, a single character, or empty.
stod(s) ==
  LET stop == Len(s) + 1
      neg == s # <<>> /\ Head(s) = "-"
      q0 == IF neg THEN 2 ELSE 1
      q1 == DigitsEnd(s, q0, stop)
      q2 == IF q1 < stop /\ s[q1] = "." THEN DigitsEnd(s, q1 + 1, stop) ELSE q1
      frac == DigitVals(SubSeq(s, q1 + 1, q2 - 1))
      hasExp == q2 < stop
      eneg == hasExp /\ q2 + 1 < stop /\ s[q2 + 1] = "-"
      q3 == IF hasExp /\ s[q2 + 1] \in {"+", "-"} THEN q2 + 2 ELSE q2 + 1
      e == IF hasExp THEN DecimalCapped(DigitVals(SubSeq(s, q3, Len(s))), 0) ELSE 0
      f == MkFloat(neg, DigitVals(SubSeq(s, q0, q1 - 1)) \o frac,
                   (IF eneg THEN -e ELSE e) - Len(frac))
  IN IF s = <<>> \/ NumberEnd(s, 1, stop) # stop
     THEN [throws |-> "invalid_argument", f |-> FloatZero]
     ELSE IF FloatOutOfRange(f) THEN [throws |-> "out_of_range", f |-> FloatZero]
     ELSE [throws |-> "", f |-> f]

\* A conversion that does not report overflow (not what stoll does): the
\* digits are taken as they stand.
stollUnchecked(s) ==
  LET neg == Head(s) = "-"
      mag == StripZeros(DigitVals(IF neg THEN Tail(s) ELSE s))
  IN [throws |-> "", i |-> MkInt(neg, mag)]

\* stoll(s) for s matching ^-?[0-9]+$: [throws, i].
stoll(s) ==
  LET neg == Head(s) = "-"
      mag == StripZeros(DigitVals(IF neg THEN Tail(s) ELSE s))
  IN IF MagLessEq(mag, IF neg THEN IntMinMag ELSE IntMaxMag)
     THEN [throws |-> "", i |-> MkInt(neg, mag)]
     ELSE [throws |-> "out_of_range", i |-> IntZero]

\* The value of a token that is no key of mapToken: [throws, value].
NumberValue(sToken) ==
  IF IsIntegerText(sToken) /\ stoll(sToken).throws = ""
  THEN [throws |-> "", value |-> IntCell(stoll(sToken).i)]
  ELSE [throws |-> stod(sToken).throws, value |-> FloatCell(stod(sToken).f)]

\* ------------------------------------------------------------------- UTF-8
\* wstring_convert<codecvt_utf8_utf16<char16_t>>::to_bytes(su16.c_str()) of
\* one UTF-16 unit: [throws, bytes].  c_str() ends at a unit 0.  A high
\* surrogate without its low surrogate is incomplete input, for which the
\* library either throws range_error or converts nothing (partialThrows); a
\* low surrogate alone is an error.
Utf8Unit(u, partialThrows) ==
  CASE u = 0 -> [throws |-> "", bytes |-> <<>>]
    [] u \in 1..127 -> [throws |-> "", bytes |-> <<Chr(u)>>]
    [] u \in 128..2047 ->
         [throws |-> "", bytes |-> <<Chr(192 + (u \div 64)), Chr(128 + (u % 64))>>]
    [] u \in 55296..56319 ->
         [throws |-> IF partialThrows THEN "range_error" ELSE "", bytes |-> <<>>]
    [] u \in 56320..57343 -> [throws |-> "range_error", bytes |-> <<>>]
    [] OTHER ->
         [throws |-> "",
          bytes |-> <<Chr(224 + (u \div 4096)), Chr(128 + ((u \div 64) % 64)),
                      Chr(128 + (u % 64))>>]

\* to_bytes of a surrogate pair.
Utf8Pair(high, low) ==
  LET c == 65536 + (high - 55296) * 1024 + (low - 56320)
  IN <<Chr(240 + (c \div 262144)), Chr(128 + ((c \div 4096) % 64)),
       Chr(128 + ((c \div 64) % 64)), Chr(128 + (c % 64))>>

\* ------------------------------------------------------------ parser state
\* State::flags
FlagsZero == [bFinish |-> FALSE, bBegin |-> FALSE, end |-> 0, objectKey |-> 0, value |-> 0]

\* The cell of State::result.
Result == 1

\* What a build fixes: whether assert is compiled out (NDEBUG), and what
\* to_bytes does with incomplete input.
Builds == [ndebug : BOOLEAN, partialThrows : BOOLEAN]

\* ParseOptions
ParseOptions == [comment : BOOLEAN]

\* State(sJson), with the arguments of parse.  status is "run" while the
\* loop of parse runs, "done" after its break, "ParseException" after a
\* throw and "abort" after a failed assert.
State(sJson, opt) ==
  [json |-> sJson,
   opt |-> opt,
   h |-> [NewHeap(Len(sJson) + 1) EXCEPT ![Result] = NullCell],
   flags |-> [FlagsZero EXCEPT !.bBegin = TRUE, !.value = 3],
   parents |-> <<Result>>,
   it |-> 1,
   itLineEnd |-> 1,
   status |-> "run",
   what |-> ""]

\* No parse is under way.
NoParse ==
  [State(<<>>, [comment |-> TRUE]) EXCEPT !.status = "idle"]

\* throw ParseException(msg, json, it)
ThrowParse(st, msg) == [st EXCEPT !.status = "ParseException", !.what = msg]

\* A failed assert.
Abort(st) == [st EXCEPT !.status = "abort"]

\* ParseException::position
Position(st) == st.it - 1

Top(st) == st.parents[Len(st.parents)]

PopBack(s) == SubSeq(s, 1, Len(s) - 1)

\* State::setValue
setValue(st, value, build) ==
  LET parent == Top(st)
  IN CASE st.flags.value = 1 ->
            IF ~isNull(st.h, parent) /\ ~build.ndebug THEN Abort(st)
            ELSE [st EXCEPT !.h = AssignScalar(st.h, parent, value),
                            !.parents = PopBack(st.parents),
                            !.flags = [FlagsZero EXCEPT !.end = 2]]
       [] st.flags.value = 2 ->
            IF st.h[parent].type # "Array" THEN ThrowParse(st, "")
            ELSE LET r == SubscriptIndex(st.h, parent, Len(st.h[parent].a))
                 IN [st EXCEPT !.h = AssignScalar(r.h, r.ref, value),
                               !.flags = [FlagsZero EXCEPT !.end = 4]]
       [] st.flags.value = 3 ->
            [st EXCEPT !.h = AssignScalar(st.h, parent, value),
                       !.flags = [FlagsZero EXCEPT !.bFinish = TRUE]]
       [] OTHER -> ThrowParse(st, "")

\* A setEnd that leaves the closed container on parents (not what the code
\* does).
setEndKeepsTop(st) ==
  IF Len(st.parents) <= 1
  THEN [st EXCEPT !.flags = [FlagsZero EXCEPT !.bFinish = TRUE]]
  ELSE LET type == st.h[Top(st)].type
       IN CASE type = "Map" -> [st EXCEPT !.flags = [FlagsZero EXCEPT !.end = 2]]
            [] type = "Array" -> [st EXCEPT !.flags = [FlagsZero EXCEPT !.end = 4]]
            [] OTHER -> ThrowParse(st, "")

\* State::setEnd
setEnd(st) ==
  IF Len(st.parents) <= 1
  THEN [st EXCEPT !.flags = [FlagsZero EXCEPT !.bFinish = TRUE]]
  ELSE LET parents == PopBack(st.parents)
           type == st.h[parents[Len(parents)]].type
       IN CASE type = "Map" ->
                 [st EXCEPT !.parents = parents, !.flags = [FlagsZero EXCEPT !.end = 2]]
            [] type = "Array" ->
                 [st EXCEPT !.parents = parents, !.flags = [FlagsZero EXCEPT !.end = 4]]
            [] OTHER -> ThrowParse([st EXCEPT !.parents = parents], "")

\* ------------------------------------------------------------------ tokens
\* The token regex, its alternatives in their order: [s, it], the text of
\* group 1 and the end of the match; the empty string and it when nothing
\* matches.
GetToken(st) ==
  LET json == st.json
      f == st.flags
      stop == st.itLineEnd
      p == SkipSpace(json, st.it, stop)
      c == json[p]
      word(w) == [s |-> w, it |-> p + Len(w)]
      n == NumberEnd(json, p, stop)
  IN IF Matches(json, p, stop, <<"/", "/">>) THEN word(<<"/", "/">>)
     ELSE IF Matches(json, p, stop, <<"/", "*">>) THEN word(<<"/", "*">>)
     ELSE IF f.bFinish THEN word(<<c>>)
     ELSE IF f.bBegin /\ c \in {"{", "["} THEN word(<<c>>)
     ELSE IF f.end = 1 /\ c = "}" THEN word(<<c>>)
     ELSE IF f.end = 2 /\ c \in {"}", ","} THEN word(<<c>>)
     ELSE IF f.end = 3 /\ c = "]" THEN word(<<c>>)
     ELSE IF f.end = 4 /\ c \in {"]", ","} THEN word(<<c>>)
     ELSE IF f.objectKey = 1 /\ c = "\"" THEN word(<<c>>)
     ELSE IF f.objectKey = 2 /\ c = ":" THEN word(<<c>>)
     ELSE IF f.value # 0 /\ c = "\"" THEN word(<<c>>)
     ELSE IF f.value # 0 /\ Matches(json, p, stop, <<"t", "r", "u", "e">>)
     THEN word(<<"t", "r", "u", "e">>)
     ELSE IF f.value # 0 /\ Matches(json, p, stop, <<"f", "a", "l", "s", "e">>)
     THEN word(<<"f", "a", "l", "s", "e">>)
     ELSE IF f.value # 0 /\ Matches(json, p, stop, <<"n", "u", "l", "l">>)
     THEN word(<<"n", "u", "l", "l">>)
     ELSE IF f.value # 0 /\ n > p THEN word(SubSeq(json, p, n - 1))
     ELSE [s |-> <<>>, it |-> st.it]

\* The keys of mapToken.
mapToken ==
  {<<"/", "/">>, <<"/", "*">>, <<"{">>, <<":">>, <<"}">>, <<"[">>, <<"]">>, <<",">>,
   <<"t", "r", "u", "e">>, <<"f", "a", "l", "s", "e">>, <<"n", "u", "l", "l">>,
   <<"\"">>}

\* ---------------------------------------------------------------- handlers
\* "//": regex(".*(\n|$)") searched from it always has a match, which ends
\* behind the next line feed or at cend().
LineComment(st) == [st EXCEPT !.it = LineEnd(st.json, st.it)]

\* "/*"
BlockComment(st) ==
  LET q == Find(st.json, st.it, <<"*", "/">>)
  IN IF q = 0 THEN ThrowParse(st, "") ELSE [st EXCEPT !.it = q + 2]

\* "{"
ObjectBegin(st) ==
  LET parent == Top(st)
      next == [FlagsZero EXCEPT !.objectKey = 1, !.end = 1]
  IN IF st.h[parent].type = "Array"
     THEN LET r == SubscriptIndex(st.h, parent, Len(st.h[parent].a))
          IN [st EXCEPT !.h = ensureMap(r.h, r.ref),
                        !.parents = Append(st.parents, r.ref),
                        !.flags = next]
     ELSE IF ~isNull(st.h, parent) THEN ThrowParse(st, "")
     ELSE [st EXCEPT !.h = ensureMap(st.h, parent), !.flags = next]

\* ":"
Colon(st) == [st EXCEPT !.flags = [FlagsZero EXCEPT !.bBegin = TRUE, !.value = 1]]

\* "}"
ObjectEnd(st) ==
  IF st.h[Top(st)].type # "Map" THEN ThrowParse(st, "") ELSE setEnd(st)

\* "["
ArrayBegin(st) ==
  LET parent == Top(st)
      next == [FlagsZero EXCEPT !.bBegin = TRUE, !.value = 2, !.end = 3]
  IN IF st.h[parent].type = "Array"
     THEN LET r == SubscriptIndex(st.h, parent, Len(st.h[parent].a))
          IN [st EXCEPT !.h = ensureArray(r.h, r.ref),
                        !.parents = Append(st.parents, r.ref),
                        !.flags = next]
     ELSE IF ~isNull(st.h, parent) THEN ThrowParse(st, "")
     ELSE [st EXCEPT !.h = ensureArray(st.h, parent), !.flags = next]

\* "]"
ArrayEnd(st) ==
  IF st.h[Top(st)].type # "Array" THEN ThrowParse(st, "") ELSE setEnd(st)

\* A comma after which the container may be closed as well, as right after
\* its opening bracket (not what the code does).
CommaReopens(st) ==
  CASE st.flags.end = 2 -> [st EXCEPT !.flags = [FlagsZero EXCEPT !.objectKey = 1, !.end = 1]]
    [] st.flags.end = 4 ->
         [st EXCEPT !.flags = [FlagsZero EXCEPT !.bBegin = TRUE, !.value = 2, !.end = 3]]
    [] OTHER -> ThrowParse(st, "")

\* ","
Comma(st) ==
  CASE st.flags.end = 2 -> [st EXCEPT !.flags = [FlagsZero EXCEPT !.objectKey = 1]]
    [] st.flags.end = 4 ->
         [st EXCEPT !.flags = [FlagsZero EXCEPT !.bBegin = TRUE, !.value = 2]]
    [] OTHER -> ThrowParse(st, "")

\* "true", "false", "null"
Literal(st, sToken, build) ==
  setValue(st,
           CASE sToken = <<"t", "r", "u", "e">> -> BoolCell(TRUE)
             [] sToken = <<"f", "a", "l", "s", "e">> -> BoolCell(FALSE)
             [] OTHER -> NullCell,
           build)

\* The alternative of the string regex that matches at p: [len, kind, out],
\* len 0 when none does.  kind is "quote" for the closing quote, "char" for
\* an escape that mapReplace or the \u conversion turns into out, and
\* "throw" for a \u escape whose conversion throws.
EscapeAt(json, p, stop, build) ==
  LET isU(q) == /\ Matches(json, q, stop, <<"\\", "u">>)
                /\ q + 6 <= stop
                /\ \A k \in 2..5 : IsHex(json[q + k])
      isHigh(q) == /\ isU(q)
                   /\ json[q + 2] \in {"d", "D"}
                   /\ json[q + 3] \in {"8", "9", "a", "b", "A", "B"}
      isLow(q) == /\ isU(q)
                  /\ json[q + 2] \in {"d", "D"}
                  /\ json[q + 3] \in {"c", "d", "e", "f", "C", "D", "E", "F"}
      two(out) == [len |-> 2, kind |-> "char", out |-> out]
      u == Utf8Unit(Hex4(json, p + 2), build.partialThrows)
  IN IF isHigh(p) /\ isLow(p + 6)
     THEN [len |-> 12, kind |-> "char",
           out |-> Utf8Pair(Hex4(json, p + 2), Hex4(json, p + 8))]
     ELSE IF isU(p)
     THEN [len |-> 6, kind |-> IF u.throws = "" THEN "char" ELSE "throw",
           out |-> u.bytes]
     ELSE IF Matches(json, p, stop, <<"\\", "\"">>) THEN two(<<"\"">>)
     ELSE IF Matches(json, p, stop, <<"\\", "r">>) THEN two(<<"CR">>)
     ELSE IF Matches(json, p, stop, <<"\\", "t">>) THEN two(<<"TAB">>)
     ELSE IF Matches(json, p, stop, <<"\\", "/">>) THEN two(<<"/">>)
     ELSE IF Matches(json, p, stop, <<"\\", "b">>) THEN two(<<"BS">>)
     ELSE IF Matches(json, p, stop, <<"\\", "\\">>) THEN two(<<"\\">>)
     ELSE IF Matches(json, p, stop, <<"\"">>)
     THEN [len |-> 1, kind |-> "quote", out |-> <<>>]
     ELSE [len |-> 0, kind |-> "", out |-> <<>>]

\* The decoding loop of the string handler: each search of ^(.*?)(...) from
\* it takes the characters up to the first position where an alternative
\* matches, none of them a line terminator.  [throws, what, it, sText]; p
\* is where the running search stands and it where it began.
RECURSIVE DecodeString(_, _, _, _, _, _)
DecodeString(json, it, p, stop, result, build) ==
  IF p >= stop THEN [throws |-> TRUE, what |-> "", it |-> it, sText |-> <<>>]
  ELSE CHOOSE r \in
         {IF e.len = 0 /\ json[p] \in {"LF", "CR"}
          THEN [throws |-> TRUE, what |-> "", it |-> it, sText |-> <<>>]
          ELSE IF e.len = 0
          THEN DecodeString(json, it, p + 1, stop, Append(result, json[p]), build)
          ELSE IF e.kind = "quote"
          THEN [throws |-> FALSE, what |-> "", it |-> p + 1, sText |-> result]
          ELSE IF e.kind = "throw"
          THEN [throws |-> TRUE, what |-> "range_error", it |-> p + e.len,
                sText |-> <<>>]
          ELSE DecodeString(json, p + e.len, p + e.len, stop, result \o e.out, build) :
            e \in {EscapeAt(json, p, stop, build)}} : TRUE

\* The string handler without the v.clear() of the key branch (not what the
\* code does): a key met again keeps the value of its earlier occurrence.
StringDecodedNoClear(st, d, build) ==
  LET at == [st EXCEPT !.it = d.it]
      parent == Top(st)
      r == SubscriptKey(st.h, parent, d.sText)
  IN IF d.throws THEN ThrowParse(at, d.what)
     ELSE IF st.flags.objectKey = 1
     THEN IF st.h[parent].type # "Map" /\ ~build.ndebug THEN Abort(at)
          ELSE [at EXCEPT !.h = r.h,
                          !.parents = Append(st.parents, r.ref),
                          !.flags = [FlagsZero EXCEPT !.objectKey = 2]]
     ELSE setValue(at, StringCell(d.sText), build)

\* The string handler behind its decoding d: a key when flags.objectKey is
\* 1, a value otherwise.
StringDecoded(st, d, build) ==
  LET at == [st EXCEPT !.it = d.it]
      parent == Top(st)
      r == SubscriptKey(st.h, parent, d.sText)
  IN IF d.throws THEN ThrowParse(at, d.what)
     ELSE IF st.flags.objectKey = 1
     THEN IF st.h[parent].type # "Map" /\ ~build.ndebug THEN Abort(at)
          ELSE [at EXCEPT !.h = clear(r.h, r.ref),
                          !.parents = Append(st.parents, r.ref),
                          !.flags = [FlagsZero EXCEPT !.objectKey = 2]]
     ELSE setValue(at, StringCell(d.sText), build)

\* "\""
String(st, build) ==
  CHOOSE r \in
    {StringDecoded(st, d, build) :
       d \in {DecodeString(st.json, st.it, st.it, st.itLineEnd, <<>>, build)}} : TRUE

\* A token that is no key of mapToken is taken for a number.
Number(st, sToken, build) ==
  LET n == NumberValue(sToken)
  IN IF n.throws # "" THEN ThrowParse(st, n.throws) ELSE setValue(st, n.value, build)

\* --------------------------------------------------------------- main loop
\* A loop head that leaves the loop at the end of the text whatever the
\* flags (not what the code does).
LoopHeadBreaksAtEnd(st) ==
  IF st.flags = FlagsZero \/ st.parents = <<>> THEN "throw"
  ELSE IF st.it = Len(st.json) + 1 THEN "break"
  ELSE IF ~HasNonSpace(st.json, st.it, LineEnd(st.json, st.it)) THEN "blank"
  ELSE "token"

\* What one turn of the loop meets first: "throw" (the checks of flags.all
\* and parents, or the end of the text outside bFinish), "break" (the end
\* of the text in bFinish), "blank" (nothing but white space up to the
\* line's end) or "token".
LoopHead(st) ==
  IF st.flags = FlagsZero \/ st.parents = <<>> THEN "throw"
  ELSE IF st.it = Len(st.json) + 1
  THEN IF st.flags.bFinish THEN "break" ELSE "throw"
  ELSE IF ~HasNonSpace(st.json, st.it, LineEnd(st.json, st.it)) THEN "blank"
  ELSE "token"

\* The state with itLineEnd set, as the token regex and the handlers see it.
AtLine(st) == [st EXCEPT !.itLineEnd = LineEnd(st.json, st.it)]

\* The token a turn of the loop that comes to the token regex gets.
sTokenOf(st) == GetToken(AtLine(st)).s

\* A handler called with it where it was before the token (not what the code
\* does).
TakenInPlace(st) == AtLine(st)

\* The state a handler is called on: it is behind the token.
Taken(st) == [AtLine(st) EXCEPT !.it = GetToken(AtLine(st)).it]

\* i->second(state), or the number branch.
Dispatch(st, sToken, build) ==
  CASE sToken = <<"/", "/">> -> LineComment(st)
    [] sToken = <<"/", "*">> -> BlockComment(st)
    [] sToken = <<"{">> -> ObjectBegin(st)
    [] sToken = <<":">> -> Colon(st)
    [] sToken = <<"}">> -> ObjectEnd(st)
    [] sToken = <<"[">> -> ArrayBegin(st)
    [] sToken = <<"]">> -> ArrayEnd(st)
    [] sToken = <<",">> -> Comma(st)
    [] sToken \in {<<"t", "r", "u", "e">>, <<"f", "a", "l", "s", "e">>,
                   <<"n", "u", "l", "l">>} -> Literal(st, sToken, build)
    [] sToken = <<"\"">> -> String(st, build)
    [] OTHER -> Number(st, sToken, build)

\* One turn of while (true).
Turn(st, build) ==
  CASE LoopHead(st) = "throw" -> ThrowParse(st, "")
    [] LoopHead(st) = "break" -> [st EXCEPT !.status = "done"]
    [] LoopHead(st) = "blank" -> [AtLine(st) EXCEPT !.it = LineEnd(st.json, st.it)]
    [] OTHER ->
         CHOOSE r \in {Dispatch(taken, sToken, build) :
                          taken \in {Taken(st)}, sToken \in {sTokenOf(st)}} : TRUE

\* The loop, to its end (each turn's state is evaluated once, as the value
\* next).
RECURSIVE Run(_, _)
Run(st, build) ==
  IF st.status # "run" THEN st
  ELSE CHOOSE r \in {Run(next, build) : next \in {Turn(st, build)}} : TRUE

\* parse(sJson, opt): the final state; its status tells return from throw,
\* and cell Result of its h is the value returned.  opt is not read.
parse(sJson, opt, build) == Run(State(sJson, opt), build)

\* =============================================================== stringify
\* fEscape
fEscape(s) ==
  LET r1 == ReplaceAll(s, <<"\\">>, <<"\\", "\\">>)
      r2 == ReplaceAll(r1, <<"\"">>, <<"\\", "\"">>)
      r3 == ReplaceAll(r2, <<"CR">>, <<"\\", "r">>)
      r4 == ReplaceAll(r3, <<"TAB">>, <<"\\", "t">>)
      r5 == ReplaceAll(r4, <<"/">>, <<"\\", "/">>)
  IN ReplaceAll(r5, <<"BS">>, <<"\\", "b">>)

DigitChars(d) == [k \in DOMAIN d |-> DigitChar(d[k])]

\* std::to_string(intmax_t)
IntToString(i) == (IF i.neg THEN <<"-">> ELSE <<>>) \o DigitChars(i.mag)

\* The digits of a magnitude with one added to it.
RECURSIVE MagPlusOne(_)
MagPlusOne(d) ==
  IF d = <<>> THEN <<1>>
  ELSE IF d[Len(d)] < 9 THEN [d EXCEPT ![Len(d)] = @ + 1]
  ELSE MagPlusOne(SubSeq(d, 1, Len(d) - 1)) \o <<0>>

Zeros(n) == [k \in 1..n |-> 0]

\* std::to_string(double), the format %f: the integer part, a point and six
\* decimals, the seventh decimal rounding them (a tie is decided by the
\* binary value, which is not represented: it rounds up here).  The digits
\* are those of the decimal value: exact for values of at most 15
\* significant digits; beyond that to_string prints the digits of the
\* nearest binary double, which are not represented.
FloatToString(f) ==
  LET all == IF f.exp >= 0 THEN f.mag \o Zeros(f.exp + 6)
             ELSE IF -f.exp <= 6 THEN f.mag \o Zeros(6 + f.exp)
             ELSE IF -f.exp - 6 >= Len(f.mag) THEN <<0>>
             ELSE SubSeq(f.mag, 1, Len(f.mag) + f.exp + 6)
      next == IF -f.exp > 6 /\ -f.exp - 6 <= Len(f.mag)
              THEN f.mag[Len(f.mag) + f.exp + 6 + 1] ELSE 0
      rounded == IF next >= 5 THEN MagPlusOne(all) ELSE all
      padded == Zeros(IF Len(rounded) < 7 THEN 7 - Len(rounded) ELSE 0) \o rounded
  IN (IF f.neg THEN <<"-">> ELSE <<>>)
       \o DigitChars(SubSeq(padded, 1, Len(padded) - 6))
       \o <<".">>
       \o DigitChars(SubSeq(padded, Len(padded) - 5, Len(padded)))

\* F::f
RECURSIVE stringify(_, _), StringifyArray(_, _), StringifyMap(_, _)
stringify(h, j) ==
  CASE h[j].type = "Null" -> <<"n", "u", "l", "l">>
    [] h[j].type = "Bool" ->
         IF h[j].b THEN <<"t", "r", "u", "e">> ELSE <<"f", "a", "l", "s", "e">>
    [] h[j].type = "Float" -> FloatToString(h[j].f)
    [] h[j].type = "Int" -> IntToString(h[j].i)
    [] h[j].type = "String" -> <<"\"">> \o fEscape(h[j].s) \o <<"\"">>
    [] h[j].type = "Array" ->
         LET s == <<"[">> \o StringifyArray(h, h[j].a)
         IN (IF Len(h[j].a) >= 1 THEN PopBack(s) ELSE s) \o <<"]">>
    [] h[j].type = "Map" ->
         LET s == <<"{">> \o StringifyMap(h, h[j].m)
         IN (IF Len(h[j].m) >= 1 THEN PopBack(s) ELSE s) \o <<"}">>

StringifyArray(h, a) ==
  IF a = <<>> THEN <<>>
  ELSE stringify(h, Head(a)) \o <<",">> \o StringifyArray(h, Tail(a))

StringifyMap(h, m) ==
  IF m = <<>> THEN <<>>
  ELSE <<"\"">> \o fEscape(Head(m).k) \o <<"\"", ":">> \o stringify(h, Head(m).v)
         \o <<",">> \o StringifyMap(h, Tail(m))

\* ============================================================ JSON Pointer
\* sregex_token_iterator(s, regex("/"), -1) for a text s that ends in "/":
\* the pieces in front of each "/"; the empty rest behind the stop "/" is
\* no token.
RECURSIVE SplitTokens(_, _)
SplitTokens(s, piece) ==
  IF s = <<>> THEN <<>>
  ELSE IF Head(s) = "/" THEN <<piece>> \o SplitTokens(Tail(s), <<>>)
  ELSE SplitTokens(Tail(s), Append(piece, Head(s)))

\* The replacements of tbl, one after the other.
PointerUnescape(s) ==
  LET r1 == ReplaceAll(s, <<"~", "0">>, <<"~">>)
      r2 == ReplaceAll(r1, <<"~", "1">>, <<"/">>)
      r3 == ReplaceAll(r2, <<"CR">>, <<"\\", "r">>)
      r4 == ReplaceAll(r3, <<"TAB">>, <<"\\", "t">>)
  IN ReplaceAll(r4, <<"BS">>, <<"\\", "b">>)

\* The JSON text built from the tokens, behind its "[".
RECURSIVE PointerJson(_)
PointerJson(tokens) ==
  IF tokens = <<>> THEN <<>>
  ELSE (IF IsDigitsText(Head(tokens)) THEN Head(tokens)
        ELSE <<"\"">> \o PointerUnescape(Head(tokens)) \o <<"\"">>)
         \o <<",">> \o PointerJson(Tail(tokens))

PointerText(text) ==
  <<"[">> \o PopBack(PointerJson(SplitTokens(text \o <<"/">>, <<>>))) \o <<"]">>

\* get<int>() of an Int: static_cast<int>(m_int), the low 32 bits of the
\* value read as a signed number.  The bits are kept as two 16 bit halves.
RECURSIVE Low32(_, _, _)
Low32(mag, hi, lo) ==
  IF mag = <<>> THEN [hi |-> hi, lo |-> lo]
  ELSE LET l == lo * 10 + Head(mag)
       IN Low32(Tail(mag), (hi * 10 + (l \div 65536)) % 65536, l % 65536)

GetIntOfInt(i) ==
  LET u == Low32(i.mag, 0, 0)
      lo == IF i.neg THEN (65536 - u.lo) % 65536 ELSE u.lo
      hi == IF i.neg THEN (65535 - u.hi + (IF u.lo = 0 THEN 1 ELSE 0)) % 65536 ELSE u.hi
  IN IF hi < 32768 THEN hi * 65536 + lo ELSE (hi - 65536) * 65536 + lo

\* The loop of at(const Pointer&) over tokens[i], i >= 1.
RECURSIVE PointerWalk(_, _, _, _, _)
PointerWalk(h, p, th, tokens, i) ==
  IF i > Len(tokens) THEN NoThrow(p)
  ELSE LET j == th[tokens[i]]
           r == CASE j.type = "Int" -> atIndex(h, p, GetIntOfInt(j.i))
                  [] j.type = "String" -> atKey(h, p, j.s)
                  [] OTHER -> Throw("out_of_range")
       IN IF r.throws # "" THEN r ELSE PointerWalk(h, r.ref, th, tokens, i + 1)

\* JsonT& at(const Pointer& pointer): [throws, ref].
PointerTokens(h, this, json, build) ==
  LET v == json.h[Result].a
      th == IF json.h[v[1]].type = "String" /\ json.h[v[1]].s = <<>>
            THEN clear(json.h, v[1]) ELSE json.h
  IN IF json.status # "done" THEN Throw(json.status)
     ELSE IF json.h[Result].type # "Array" /\ ~build.ndebug THEN Throw("abort")
     ELSE IF ~isNull(th, v[1]) THEN Throw("out_of_range")
     ELSE PointerWalk(h, this, th, v, 2)

atPointer(h, this, text, build) ==
  IF text = <<>> THEN NoThrow(this)
  ELSE CHOOSE r \in
         {PointerTokens(h, this, json, build) :
            json \in {parse(PointerText(text), [comment |-> TRUE], build)}} : TRUE

\* const JsonT& operator[](const Pointer& pointer) const: only out_of_range
\* is caught.
SubscriptPointer(h, this, text, build) ==
  CHOOSE ret \in
    {IF r.throws = "out_of_range" THEN NoThrow(EmptyJson) ELSE r :
       r \in {atPointer(h, this, text, build)}} : TRUE

\* ===================================================== value-tree behaviour
\* A caller holds two JsonT variables, a and b, and calls the members of
\* JsonT on them and on the elements it reaches through them.
RootA == 1
RootB == 2

Keys == {<<"a">>, <<"b">>}
Indexes == 0..MaxIndex
\* The literals the caller assigns: to elements, and to its variables.
ElementLiterals == {IntCell(IntOne)}
RootLiterals ==
  ElementLiterals
    \cup {BoolCell(TRUE), FloatCell(MkFloat(FALSE, <<1, 5>>, -1)), StringCell(<<"s">>)}
Roots == {RootA, RootB}
LiteralsFor(v) == IF v \in Roots THEN RootLiterals ELSE ElementLiterals

\* Scratch room for the cells an operation allocates.
Grow(h) ==
  [x \in 0..(RootB + 2 * MaxElements + MaxIndex + 2) |->
     IF x \in DOMAIN h THEN h[x] ELSE FreeCell]

Constructed(h, x) == h[x].type # "NoObject"

\* The objects the caller can name: a, b and what they own.
Live(h) ==
  Subtree(h, RootA) \cup (IF Constructed(h, RootB) THEN Subtree(h, RootB) ELSE {})

\* Neither cell owns the other.
Apart(h, x, y) == x \notin Subtree(h, y) /\ y \notin Subtree(h, x)

\* The cells below x, in the order a traversal from x reaches them.
RECURSIVE Preorder(_, _), PreorderAll(_, _)
Preorder(h, x) == PreorderAll(h, ChildSeq(h, x))

PreorderAll(h, ids) ==
  IF ids = <<>> THEN <<>>
  ELSE <<Head(ids)>> \o Preorder(h, Head(ids)) \o PreorderAll(h, Tail(ids))

Order(h) == Preorder(h, RootA) \o Preorder(h, RootB)

\* An address means nothing beyond the call that uses it: after every call
\* the cells are renamed in the order they are reached from a and b, so that
\* two heaps that differ only in addresses are one state.
NewName(h, x) ==
  IF x <= RootB THEN x
  ELSE IF \E k \in DOMAIN Order(h) : Order(h)[k] = x
  THEN RootB + (CHOOSE k \in DOMAIN Order(h) : Order(h)[k] = x)
  ELSE EmptyJson

Rename(h) ==
  LET order == Order(h)
      name(x) == IF x <= RootB THEN x
                 ELSE RootB + (CHOOSE k \in DOMAIN order : order[k] = x)
      cell(c) == [c EXCEPT !.a = [k \in DOMAIN c.a |-> name(c.a[k])],
                           !.m = [k \in DOMAIN c.m |->
                                    [k |-> c.m[k].k, v |-> name(c.m[k].v)]]]
  IN [y \in 0..(RootB + MaxElements) |->
        IF y <= RootB THEN cell(h[y])
        ELSE IF y - RootB <= Len(order) THEN cell(h[order[y - RootB]])
        ELSE FreeCell]

\* A step whose result needs more elements than the bound is not taken.
Fits(h) ==
  Len(Order(h)) <= IF Constructed(h, RootB) THEN MaxElementsTwo ELSE MaxElements

\* The record of a call: the receiver this and the argument src as they
\* are addressed before the call, a key, an index or a literal argument,
\* the receiver's kind and size before the call, and, after the call, what
\* it returned or threw and where the receiver (self), src (srcNow) and
\* the returned reference (ref) are.  pointer is the text of a Pointer
\* argument, text a JSON text returned or passed, build the build the call
\* ran in.
NoCall ==
  [op |-> "", this |-> 0, src |-> 0, key |-> <<>>, index |-> 0, arg |-> NullCell,
   was |-> "", n |-> 0, ret |-> FALSE, throws |-> "", ref |-> 0, self |-> 0,
   srcNow |-> 0, pointer |-> <<>>, text |-> <<>>,
   build |-> [ndebug |-> FALSE, partialThrows |-> FALSE]]

\* Size of the receiver's container (0 for a non-container).
SizeOf(h, x) == Len(ChildSeq(h, x))

Call(op, this, src, key, index, arg) ==
  [NoCall EXCEPT !.op = op, !.this = this, !.src = src, !.key = key,
                 !.index = index, !.arg = arg, !.was = heap[this].type,
                 !.n = SizeOf(heap, this)]

\* A call is made once the record of the previous one is dropped.
Commit(h, call, ret, throws, ref) ==
  /\ last = NoCall
  /\ Fits(h)
  /\ heap' = Rename(h)
  /\ last' = [call EXCEPT !.ret = ret, !.throws = throws, !.ref = NewName(h, ref),
                          !.self = NewName(h, call.this),
                          !.srcNow = NewName(h, call.src)]
  /\ UNCHANGED state

\* The caller is done with what the call returned (after a failed assert
\* there is no caller any more).
Return ==
  /\ last # NoCall
  /\ last.throws # "abort"
  /\ last' = NoCall
  /\ UNCHANGED <<heap, state>>

\* JsonT a; and room for b.
InitHeap ==
  [NewHeap(RootB + MaxElements) EXCEPT ![RootA] = NullCell, ![RootB] = NoObject]

Init ==
  /\ heap = InitHeap
  /\ last = NoCall
  /\ state = NoParse

\* JsonT b;
DefaultConstruct ==
  /\ ~Constructed(heap, RootB)
  /\ Commit([Grow(heap) EXCEPT ![RootB] = NullCell],
            Call("JsonT()", RootB, 0, <<>>, 0, NullCell), FALSE, "", 0)

\* JsonT b(s);   JsonT(const JsonT& s): m_type(Null), *this = s
CopyConstruct ==
  \E s \in Live(heap) :
    /\ ~Constructed(heap, RootB)
    /\ Commit(CopyAssign([Grow(heap) EXCEPT ![RootB] = NullCell], RootB, s),
              Call("JsonT(const JsonT&)", RootB, s, <<>>, 0, NullCell), FALSE, "", 0)

\* JsonT b(std::move(s));
MoveConstructStep ==
  \E s \in Live(heap), keep \in BOOLEAN :
    /\ ~Constructed(heap, RootB)
    /\ Commit(MoveConstruct(Grow(heap), RootB, s, keep),
              Call("JsonT(JsonT&&)", RootB, s, <<>>, 0, NullCell), keep, "", 0)

\* b goes out of scope: ~JsonT()
Destruct ==
  /\ Constructed(heap, RootB)
  /\ Commit([clear(Grow(heap), RootB) EXCEPT ![RootB] = NoObject],
            Call("~JsonT()", RootB, 0, <<>>, 0, NullCell), FALSE, "", 0)

\* v = literal;
AssignLiteralStep ==
  \E v \in Live(heap) : \E lit \in LiteralsFor(v) :
    Commit(AssignLiteral(Grow(heap), v, lit),
           Call("operator=(S)", v, 0, <<>>, 0, lit), FALSE, "", 0)

\* v = s;   between objects neither of which owns the other
CopyAssignStep ==
  \E v \in Roots \cap Live(heap), s \in Live(heap) :
    /\ Apart(heap, v, s)
    /\ Commit(CopyAssign(Grow(heap), v, s),
              Call("operator=(const JsonT&)", v, s, <<>>, 0, NullCell), FALSE, "", 0)

\* What operator=(const JsonT& s) reads in s.m_type (line 190) when clear()
\* (line 189) has destroyed s and released its storage: the Null that the
\* clear() of ~JsonT() wrote, what s held before (the store of a destructor
\* is dead, and released storage keeps its bytes until it is used again), or
\* a value that is no Type.
FreedReads == {"Null", "stale", "garbage"}

\* operator=(const JsonT& s), s an element of this at any depth: [h, throws].
\* A read that is no Type falls to default: assert(false), which NDEBUG
\* compiles out, and this stays as clear() left it.
CopyAssignOwned(h, this, s, read, ndebug) ==
  LET t == Alloc(h)
      kept == CopyAssign([h EXCEPT ![t] = NullCell], t, s)
      h1 == clear(h, this)
  IN CASE read = "Null" -> [h |-> h1, throws |-> ""]
       [] read = "stale" ->
            [h |-> [clear(kept, this) EXCEPT ![this] = kept[t], ![t] = FreeCell],
             throws |-> ""]
       [] OTHER -> [h |-> h1, throws |-> IF ndebug THEN "" ELSE "abort"]

\* v = v[k];   v = v[k][j];   the source is owned by the receiver
CopyAssignOwnedStep ==
  \E v \in Live(heap) : \E s \in Descendants(heap, v), read \in FreedReads :
    \E ndebug \in (IF read = "garbage" THEN BOOLEAN ELSE {FALSE}) :
      \E r \in {CopyAssignOwned(Grow(heap), v, s, read, ndebug)} :
        Commit(r.h,
               [Call("operator=(const JsonT&) from an element", v, s, <<>>, 0,
                     ValueOf(heap, s))
                  EXCEPT !.build = [ndebug |-> ndebug, partialThrows |-> FALSE]],
               FALSE, r.throws, 0)

\* v = std::move(s);   between objects neither of which owns the other
MoveAssignStep ==
  \E v \in Roots \cap Live(heap), s \in Live(heap), keep \in BOOLEAN :
    /\ Apart(heap, v, s)
    /\ Commit(MoveAssign(Grow(heap), v, s, keep),
              Call("operator=(JsonT&&)", v, s, <<>>, 0, NullCell), keep, "", 0)

ClearStep ==
  \E v \in Live(heap) :
    Commit(clear(Grow(heap), v), Call("clear", v, 0, <<>>, 0, NullCell), FALSE, "", 0)

EnsureMapStep ==
  \E v \in Live(heap) :
    Commit(ensureMap(Grow(heap), v),
           Call("ensureMap", v, 0, <<>>, 0, NullCell), FALSE, "", v)

EnsureArrayStep ==
  \E v \in Live(heap) :
    Commit(ensureArray(Grow(heap), v),
           Call("ensureArray", v, 0, <<>>, 0, NullCell), FALSE, "", v)

\* v[key] = literal;
SubscriptKeyStep ==
  \E v \in Live(heap), key \in Keys, lit \in ElementLiterals :
    LET r == SubscriptKey(Grow(heap), v, key)
    IN Commit(AssignLiteral(r.h, r.ref, lit),
              Call("operator[](key)=", v, 0, key, 0, lit), FALSE, "", r.ref)

\* JsonT& r = v[key];
SubscriptKeyRefStep ==
  \E v \in Live(heap), key \in Keys :
    LET r == SubscriptKey(Grow(heap), v, key)
    IN Commit(r.h, Call("operator[](key)", v, 0, key, 0, NullCell), FALSE, "", r.ref)

\* v[index] = literal;
SubscriptIndexStep ==
  \E v \in Live(heap), index \in Indexes, lit \in ElementLiterals :
    LET r == SubscriptIndex(Grow(heap), v, index)
    IN Commit(AssignLiteral(r.h, r.ref, lit),
              Call("operator[](index)=", v, 0, <<>>, index, lit), FALSE, "", r.ref)

EraseKeyStep ==
  \E v \in Live(heap), key \in Keys :
    LET r == eraseKey(Grow(heap), v, key)
    IN Commit(r.h, Call("erase(key)", v, 0, key, 0, NullCell), r.ret, "", 0)

EraseIndexStep ==
  \E v \in Live(heap), index \in Indexes :
    LET r == eraseIndex(Grow(heap), v, index)
    IN Commit(r.h, Call("erase(index)", v, 0, <<>>, index, NullCell), r.ret, "", 0)

\* v.at(key)
AtKeyStep ==
  \E v \in Live(heap), key \in Keys :
    LET r == atKey(heap, v, key)
    IN Commit(Grow(heap), Call("at(key)", v, 0, key, 0, NullCell),
              FALSE, r.throws, r.ref)

\* v.at(index)
AtIndexStep ==
  \E v \in Live(heap), index \in Indexes :
    LET r == atIndex(heap, v, index)
    IN Commit(Grow(heap), Call("at(index)", v, 0, <<>>, index, NullCell),
              FALSE, r.throws, r.ref)

\* v[key] on a const JsonT
SubscriptKeyConstStep ==
  \E v \in Live(heap), key \in Keys :
    Commit(Grow(heap), Call("operator[](key) const", v, 0, key, 0, NullCell),
           FALSE, "", SubscriptKeyConst(heap, v, key))

\* v[index] on a const JsonT
SubscriptIndexConstStep ==
  \E v \in Live(heap), index \in Indexes :
    Commit(Grow(heap), Call("operator[](index) const", v, 0, <<>>, index, NullCell),
           FALSE, "", SubscriptIndexConst(heap, v, index))

\* text = v.stringify();
StringifyCallStep ==
  \E v \in Live(heap) :
    Commit(Grow(heap),
           [Call("stringify", v, 0, <<>>, 0, NullCell) EXCEPT !.text = stringify(heap, v)],
           FALSE, "", 0)

Next ==
  \/ DefaultConstruct
  \/ CopyConstruct
  \/ MoveConstructStep
  \/ Destruct
  \/ AssignLiteralStep
  \/ CopyAssignStep
  \/ CopyAssignOwnedStep
  \/ MoveAssignStep
  \/ ClearStep
  \/ EnsureMapStep
  \/ EnsureArrayStep
  \/ SubscriptKeyStep
  \/ SubscriptKeyRefStep
  \/ SubscriptIndexStep
  \/ EraseKeyStep
  \/ EraseIndexStep
  \/ AtKeyStep
  \/ AtIndexStep
  \/ SubscriptKeyConstStep
  \/ SubscriptIndexConstStep
  \/ StringifyCallStep
  \/ Return

vars == <<heap, last, state>>

Spec == Init /\ [][Next]_vars

\* ============================================================ parse, by turn
\* The texts parse is called on: up to MaxTokens pieces of Pieces in a row.
MaxTokens == 4

Pieces ==
  {<<"{">>, <<"}">>, <<"[">>, <<"]">>, <<",">>, <<":">>, <<"\"", "a", "\"">>, <<"1">>,
   <<"n", "u", "l", "l">>, <<"/", "/">>, <<"/", "*", "*", "/">>, <<"LF">>}

RECURSIVE Flatten(_)
Flatten(ss) == IF ss = <<>> THEN <<>> ELSE Head(ss) \o Flatten(Tail(ss))

TextsOf(pieces, n) == {Flatten(ss) : ss \in UNION {[1..k -> pieces] : k \in 0..n}}

Texts == TextsOf(Pieces, MaxTokens)

InitParse ==
  /\ heap = InitHeap
  /\ last = NoCall
  /\ \E sJson \in Texts, opt \in ParseOptions : state = State(sJson, opt)

\* A turn of the loop that meets what.
Meets(what) == state.status = "run" /\ LoopHead(state) = what

\* A turn of the loop that gets one of tokens from the token regex.
Gets(tokens) == Meets("token") /\ sTokenOf(state) \in tokens

Becomes(next) == state' = next /\ UNCHANGED <<heap, last>>

\* if (state.flags.all == 0) throw, if (state.parents.empty()) throw, and
\* the end of the text outside bFinish
LoopThrow == Meets("throw") /\ Becomes(ThrowParse(state, ""))

\* the end of the text in bFinish: break, return state.result
LoopBreak == Meets("break") /\ Becomes([state EXCEPT !.status = "done"])

\* an empty line: state.it = state.itLineEnd
BlankLine ==
  Meets("blank") /\ Becomes([AtLine(state) EXCEPT !.it = LineEnd(state.json, state.it)])

LineCommentTurn == Gets({<<"/", "/">>}) /\ \E st \in {Taken(state)} : Becomes(LineComment(st))

BlockCommentTurn == Gets({<<"/", "*">>}) /\ \E st \in {Taken(state)} : Becomes(BlockComment(st))

ObjectBeginTurn == Gets({<<"{">>}) /\ \E st \in {Taken(state)} : Becomes(ObjectBegin(st))

ColonTurn == Gets({<<":">>}) /\ \E st \in {Taken(state)} : Becomes(Colon(st))

ObjectEndTurn == Gets({<<"}">>}) /\ \E st \in {Taken(state)} : Becomes(ObjectEnd(st))

ArrayBeginTurn == Gets({<<"[">>}) /\ \E st \in {Taken(state)} : Becomes(ArrayBegin(st))

ArrayEndTurn == Gets({<<"]">>}) /\ \E st \in {Taken(state)} : Becomes(ArrayEnd(st))

CommaTurn == Gets({<<",">>}) /\ \E st \in {Taken(state)} : Becomes(Comma(st))

LiteralTurn ==
  /\ Gets({<<"t", "r", "u", "e">>, <<"f", "a", "l", "s", "e">>, <<"n", "u", "l", "l">>})
  /\ \E build \in Builds, st \in {Taken(state)}, sToken \in {sTokenOf(state)} :
       Becomes(Literal(st, sToken, build))

StringTurn ==
  /\ Gets({<<"\"">>})
  /\ \E build \in Builds, st \in {Taken(state)} : Becomes(String(st, build))

\* any other token, the empty one of a failed match among them
NumberTurn ==
  /\ Meets("token")
  /\ sTokenOf(state) \notin mapToken
  /\ \E build \in Builds, st \in {Taken(state)}, sToken \in {sTokenOf(state)} :
       Becomes(Number(st, sToken, build))

NextParse ==
  \/ LoopThrow
  \/ LoopBreak
  \/ BlankLine
  \/ LineCommentTurn
  \/ BlockCommentTurn
  \/ ObjectBeginTurn
  \/ ColonTurn
  \/ ObjectEndTurn
  \/ ArrayBeginTurn
  \/ ArrayEndTurn
  \/ CommaTurn
  \/ LiteralTurn
  \/ StringTurn
  \/ NumberTurn

SpecParse == InitParse /\ [][NextParse]_vars

\* ======================================================= stringify and parse
\* A value as a tree: a cell whose a and m hold trees instead of addresses.
TreeOf(cell) == cell
ArrayTree(elems) == ArrayCell(elems)
MapTree(entries) == MapCell(entries)

\* The caller builds the value v in the object this: a scalar by assignment,
\* an array by this[k] = ..., a map by this[key] = ...
RECURSIVE Make(_, _, _), MakeArray(_, _, _, _), MakeMap(_, _, _, _)
Make(h, this, v) ==
  CASE v.type = "Array" -> MakeArray(ensureArray(h, this), this, v.a, 1)
    [] v.type = "Map" -> MakeMap(ensureMap(h, this), this, v.m, 1)
    [] OTHER -> AssignScalar(h, this, v)

MakeArray(h, this, elems, k) ==
  IF k > Len(elems) THEN h
  ELSE LET r == SubscriptIndex(h, this, k - 1)
       IN MakeArray(Make(r.h, r.ref, elems[k]), this, elems, k + 1)

MakeMap(h, this, entries, k) ==
  IF k > Len(entries) THEN h
  ELSE LET r == SubscriptKey(h, this, entries[k].k)
       IN MakeMap(Make(r.h, r.ref, entries[k].v), this, entries, k + 1)

\* The characters of strings and keys: those fEscape escapes, a letter and
\* the line feed.
StringChars == {"a", "\"", "\\", "/", "CR", "TAB", "BS", "LF"}
MaxString == 2

StringsUpTo(n) == UNION {[1..k -> StringChars] : k \in 0..n}

IntMin == [neg |-> TRUE, mag |-> IntMinMag]
IntMax == [neg |-> FALSE, mag |-> IntMaxMag]

\* Scalars at the top, and the smaller choice inside containers.
TopScalars ==
  {NullCell, BoolCell(TRUE), BoolCell(FALSE), IntCell(IntZero), IntCell(IntOne),
   IntCell(MkInt(TRUE, <<1, 2>>)), IntCell(IntMin), IntCell(IntMax)}
    \cup {StringCell(s) : s \in StringsUpTo(MaxString)}

InnerScalars ==
  {NullCell, BoolCell(TRUE), IntCell(IntOne)} \cup {StringCell(s) : s \in StringsUpTo(1)}

ArraysOf(elems, n) == {ArrayTree(a) : a \in UNION {[1..k -> elems] : k \in 0..n}}

MapsOf(elems) ==
  {MapTree(<<>>)}
    \cup {MapTree(<<[k |-> key, v |-> e]>>) : key \in StringsUpTo(1), e \in elems}

\* Two entries, given in descending key order.
TwoKeyMaps ==
  {MapTree(<<[k |-> p[2], v |-> IntCell(IntOne)], [k |-> p[1], v |-> NullCell]>>) :
     p \in {q \in StringsUpTo(1) \X StringsUpTo(1) : StrLess(q[1], q[2])}}

InnerValues == InnerScalars \cup ArraysOf(InnerScalars, 2) \cup MapsOf(InnerScalars)

RoundTripValues ==
  TopScalars \cup InnerValues \cup ArraysOf(InnerValues, 1) \cup MapsOf(InnerValues)
    \cup TwoKeyMaps

InitRoundTrip ==
  /\ \E v \in RoundTripValues : heap = Rename(Make(Grow(InitHeap), RootA, v))
  /\ last = NoCall
  /\ state = NoParse

\* text = a.stringify();
StringifyStep ==
  /\ last = NoCall
  /\ state = NoParse
  /\ last' = [Call("stringify", RootA, 0, <<>>, 0, NullCell)
                EXCEPT !.text = stringify(heap, RootA), !.self = RootA]
  /\ UNCHANGED <<heap, state>>

\* JsonT::parse(text)
ParseStep ==
  /\ last.op = "stringify"
  /\ \E build \in Builds :
       /\ state' = parse(last.text, [comment |-> TRUE], build)
       /\ last' = [last EXCEPT !.op = "parse", !.build = build]
  /\ UNCHANGED heap

NextRoundTrip ==
  \/ StringifyStep
  \/ ParseStep

SpecRoundTrip == InitRoundTrip /\ [][NextRoundTrip]_vars

\* ============================================================ JSON Pointer
\* The trees a pointer is resolved in.
PointerTrees ==
  {ArrayTree(<<IntCell(MkInt(FALSE, <<1, 0>>))>>),
   ArrayTree(<<ArrayTree(<<IntCell(IntOne), NullCell>>)>>),
   MapTree(<<[k |-> <<"a">>, v |-> ArrayTree(<<IntCell(IntOne)>>)]>>),
   MapTree(<<[k |-> <<>>, v |-> IntCell(IntOne)],
             [k |-> <<"a">>, v |-> MapTree(<<[k |-> <<"1">>, v |-> NullCell]>>)]>>),
   MapTree(<<[k |-> <<"/">>, v |-> NullCell],
             [k |-> <<"~", "1">>, v |-> IntCell(IntOne)]>>),
   IntCell(IntOne)}

\* The pointer texts: up to MaxPointerPieces pieces of PointerPieces.
MaxPointerPieces == 4

PointerPieces ==
  {<<"/">>, <<"a">>, <<"0">>, <<"1">>, <<"~">>, <<"\"">>,
   <<"4", "2", "9", "4", "9", "6", "7", "2", "9", "6">>}

Pointers == TextsOf(PointerPieces, MaxPointerPieces)

InitPointer ==
  /\ \E v \in PointerTrees : heap = Rename(Make(Grow(InitHeap), RootA, v))
  /\ last = NoCall
  /\ state = NoParse

\* a.at(Pointer(text))
AtPointerStep ==
  /\ last = NoCall
  /\ \E text \in Pointers, build \in Builds :
       \E r \in {atPointer(heap, RootA, text, build)} :
         Commit(heap,
                [Call("at(Pointer)", RootA, 0, <<>>, 0, NullCell)
                   EXCEPT !.pointer = text, !.build = build],
                FALSE, r.throws, r.ref)

\* a[Pointer(text)]
SubscriptPointerStep ==
  /\ last = NoCall
  /\ \E text \in Pointers, build \in Builds :
       \E r \in {SubscriptPointer(heap, RootA, text, build)} :
         Commit(heap,
                [Call("operator[](Pointer)", RootA, 0, <<>>, 0, NullCell)
                   EXCEPT !.pointer = text, !.build = build],
                FALSE, r.throws, r.ref)

NextPointer ==
  \/ AtPointerStep
  \/ SubscriptPointerStep
  \/ Return

SpecPointer == InitPointer /\ [][NextPointer]_vars

\* ======================================================= parse, chosen texts
\* String literals: a quote, up to MaxEscape characters of EscapeChars and a
\* quote.
MaxEscape == 3

EscapeChars == {"\\", "\"", "n", "u", "0", "r"}

EscapeTexts ==
  {<<"\"">> \o body \o <<"\"">> :
     body \in UNION {[1..k -> EscapeChars] : k \in 0..MaxEscape}}

\* Objects in which the key "a" stands twice: the values of the two
\* occurrences, what separates the entries, and where the object stands.
DupValues ==
  {[text |-> <<"1">>, value |-> IntCell(IntOne)],
   [text |-> <<"n", "u", "l", "l">>, value |-> NullCell],
   [text |-> <<"[", "1", "]">>, value |-> ArrayTree(<<IntCell(IntOne)>>)],
   [text |-> <<"[", "n", "u", "l", "l", ",", "[", "]", "]">>,
    value |-> ArrayTree(<<NullCell, ArrayTree(<<>>)>>)],
   [text |-> <<"{", "}">>, value |-> MapTree(<<>>)],
   [text |-> <<"{", "\"", "a", "\"", ":", "1", "}">>,
    value |-> MapTree(<<[k |-> <<"a">>, v |-> IntCell(IntOne)]>>)],
   [text |-> <<"{", "\"", "b", "\"", ":", "[", "1", "]", "}">>,
    value |-> MapTree(<<[k |-> <<"b">>, v |-> ArrayTree(<<IntCell(IntOne)>>)]>>)]}

DupSeparators ==
  {<<",">>, <<",", "LF", "LF">>, <<"/", "*", "*", "/", ",">>, <<",", "/", "/", "LF">>}

KeyText(c) == <<"\"", c, "\"", ":">>

\* [text, value, first, second]: a text, the value it stands for when the
\* last occurrence wins, and the values of the two occurrences of "a".
DupCases ==
  {[text |-> <<"{">> \o KeyText("a") \o v.text \o sep \o KeyText("a") \o w.text
               \o <<"}">>,
    value |-> MapTree(<<[k |-> <<"a">>, v |-> w.value]>>),
    first |-> v.value, second |-> w.value] :
     v \in DupValues, w \in DupValues, sep \in DupSeparators}
  \cup
  {[text |-> <<"{">> \o KeyText("a") \o v.text \o <<",">> \o KeyText("b") \o <<"1", ",">>
               \o KeyText("a") \o w.text \o <<"}">>,
    value |-> MapTree(<<[k |-> <<"a">>, v |-> w.value],
                        [k |-> <<"b">>, v |-> IntCell(IntOne)]>>),
    first |-> v.value, second |-> w.value] :
     v \in DupValues, w \in DupValues}
  \cup
  {[text |-> <<"[", "{">> \o KeyText("a") \o v.text \o <<",">> \o KeyText("a") \o w.text
               \o <<"}", "]">>,
    value |-> ArrayTree(<<MapTree(<<[k |-> <<"a">>, v |-> w.value]>>)>>),
    first |-> v.value, second |-> w.value] :
     v \in DupValues, w \in DupValues}

DupTexts == {d.text : d \in DupCases}

\* Number texts: up to MaxNumber characters of NumberChars, and the
\* literals around the bounds of std::intmax_t and beyond those of a double.
MaxNumber == 4

NumberChars == {"-", "+", "0", "1", "9", ".", "e"}

LongNumbers ==
  {<<"9","2","2","3","3","7","2","0","3","6","8","5","4","7","7","5","8","0","7">>,
   <<"9","2","2","3","3","7","2","0","3","6","8","5","4","7","7","5","8","0","8">>,
   <<"-","9","2","2","3","3","7","2","0","3","6","8","5","4","7","7","5","8","0","8">>,
   <<"-","9","2","2","3","3","7","2","0","3","6","8","5","4","7","7","5","8","0","9">>,
   <<"0","0","0","0","0","0","0","0","0","0","0","0","0","0","0","0","0","0","0","1","9">>,
   <<"1","e","9","9","9">>, <<"1","e","-","9","9","9">>, <<"1","E","+","1","0">>}

NumberTexts == UNION {[1..k -> NumberChars] : k \in 1..MaxNumber} \cup LongNumbers

\* The texts of DupTexts cut short: every prefix of each.
CutTexts == UNION {{SubSeq(t, 1, n) : n \in 0..Len(t)} : t \in DupTexts}

\* Well-formed texts, each with the value it stands for: [text, value].
\* Every token is followed by the same gap; the keys of an object are
\* distinct and stand in either order.
Gaps == {<<>>, <<"SP">>, <<"LF">>}

\* The entries of an object in ascending key order.
RECURSIVE InKeyOrder(_)
InKeyOrder(es) ==
  IF es = <<>> THEN <<>>
  ELSE LET k == CHOOSE k \in DOMAIN es :
                  \A j \in DOMAIN es : j = k \/ StrLess(es[k].k, es[j].k)
       IN <<es[k]>> \o InKeyOrder(SeqRemove(es, k))

\* The texts of cs in a row, a comma (and the gap g) between them.
RECURSIVE CommaList(_, _)
CommaList(ts, g) ==
  IF ts = <<>> THEN <<>>
  ELSE IF Len(ts) = 1 THEN ts[1]
  ELSE ts[1] \o <<",">> \o g \o CommaList(Tail(ts), g)

ScalarCases(g) ==
  {[text |-> <<"1">> \o g, value |-> IntCell(IntOne)],
   [text |-> <<"n", "u", "l", "l">> \o g, value |-> NullCell],
   [text |-> <<"t", "r", "u", "e">> \o g, value |-> BoolCell(TRUE)],
   [text |-> <<"\"", "a", "\"">> \o g, value |-> StringCell(<<"a">>)]}

ArrayCase(cs, g) ==
  [text |-> <<"[">> \o g \o CommaList([k \in DOMAIN cs |-> cs[k].text], g) \o <<"]">> \o g,
   value |-> ArrayTree([k \in DOMAIN cs |-> cs[k].value])]

MapCase(ks, cs, g) ==
  [text |-> <<"{">> \o g
              \o CommaList([k \in DOMAIN cs |->
                              <<"\"", ks[k], "\"">> \o g \o <<":">> \o g \o cs[k].text], g)
              \o <<"}">> \o g,
   value |-> MapTree(InKeyOrder([k \in DOMAIN cs |-> [k |-> <<ks[k]>>, v |-> cs[k].value]]))]

KeyOrders == {<<>>, <<"a">>, <<"b">>, <<"a", "b">>, <<"b", "a">>}

\* The arrays of up to two of cs and the objects of up to two of cs.
ContainerCases(cs, g) ==
  {ArrayCase(es, g) : es \in UNION {[1..n -> cs] : n \in 0..2}}
    \cup UNION {{MapCase(ks, es, g) : es \in [1..Len(ks) -> cs]} : ks \in KeyOrders}

\* What stands inside the containers of the second and of the third level.
InnerCases(g) ==
  {c \in ScalarCases(g) : c.value.type \in {"Int", "Null"}}
    \cup {ArrayCase(<<>>, g), MapCase(<<>>, <<>>, g)}
    \cup {ArrayCase(<<c>>, g) : c \in {d \in ScalarCases(g) : d.value.type = "Int"}}
    \cup {MapCase(<<"a">>, <<c>>, g) : c \in {d \in ScalarCases(g) : d.value.type = "Int"}}

DeepCases(g) ==
  LET one == CHOOSE c \in ScalarCases(g) : c.value.type = "Int"
  IN {one,
      ArrayCase(<<ArrayCase(<<one>>, g)>>, g),
      ArrayCase(<<MapCase(<<"a">>, <<one>>, g), one>>, g),
      MapCase(<<"b">>, <<ArrayCase(<<one, one>>, g)>>, g),
      MapCase(<<"b", "a">>, <<MapCase(<<"b">>, <<one>>, g), one>>, g)}

WellFormedCases ==
  UNION {ScalarCases(g) \cup ContainerCases(ScalarCases(g), g)
           \cup ContainerCases(InnerCases(g), g) \cup ContainerCases(DeepCases(g), g) :
         g \in Gaps}

WellFormedTexts == {c.text : c \in WellFormedCases}

\* Texts with a comma too many: a comma put into a well-formed text of one
\* level at any place, and commas behind a closed root.
CommaTexts ==
  UNION {{SubSeq(c.text, 1, p) \o <<",">> \o SubSeq(c.text, p + 1, Len(c.text)) :
            p \in 0..Len(c.text)} :
         c \in ContainerCases(ScalarCases(<<>>), <<>>)}
    \cup {<<"[", "]", "{", "}", ",", "1", "]">>, <<"[", "]", "[", "1", "]", ",", "]">>}

ChosenTexts ==
  EscapeTexts \cup DupTexts \cup NumberTexts \cup CutTexts \cup WellFormedTexts
    \cup CommaTexts

InitTexts ==
  /\ heap = InitHeap
  /\ last = NoCall
  /\ \E sJson \in ChosenTexts, opt \in ParseOptions : state = State(sJson, opt)

SpecTexts == InitTexts /\ [][NextParse]_vars

\* The caller calls parse on a text of up to MaxCallerTokens pieces or on a
\* well-formed text of several lines, and the loop of parse keeps running:
\* while (true) has a next turn as long as no turn has left it.
MaxCallerTokens == 3

CallerTexts ==
  TextsOf(Pieces, MaxCallerTokens)
    \cup {c.text : c \in ContainerCases(DeepCases(<<"LF">>), <<"LF">>)}

InitCaller ==
  /\ heap = InitHeap
  /\ last = NoCall
  /\ state = NoParse

\* JsonT::parse(sJson, opt): State state(sJson)
ParseCall ==
  /\ state.status = "idle"
  /\ \E sJson \in CallerTexts, opt \in ParseOptions : state' = State(sJson, opt)
  /\ UNCHANGED <<heap, last>>

NextCaller ==
  \/ ParseCall
  \/ NextParse

\* A turn of while (true), whatever it meets: the turns of NextParse taken
\* together.
LoopTurn ==
  /\ state.status = "run"
  /\ \E build \in Builds : \E next \in {Turn(state, build)} : state' = next
  /\ UNCHANGED <<heap, last>>

SpecCaller == InitCaller /\ [][NextCaller]_vars /\ WF_vars(LoopTurn)

\* ===================================================== properties of parse
\* A "//" or a "/*" stands in json from p on, outside a string.
RECURSIVE CommentOutsideString(_, _, _)
CommentOutsideString(json, p, inString) ==
  IF p > Len(json) THEN FALSE
  ELSE IF inString
  THEN IF json[p] = "\\" THEN CommentOutsideString(json, p + 2, TRUE)
       ELSE CommentOutsideString(json, p + 1, json[p] # "\"")
  ELSE IF \/ Matches(json, p, Len(json) + 1, <<"/", "/">>)
          \/ Matches(json, p, Len(json) + 1, <<"/", "*">>)
  THEN TRUE
  ELSE CommentOutsideString(json, p + 1, json[p] = "\"")

\* The parser is in Done and what it meets next is a character that is
\* neither white space nor the start of a comment.
TrailingToken ==
  /\ state.status = "run"
  /\ state.flags.bFinish
  /\ LoopHead(state) = "token"
  /\ sTokenOf(state) \notin {<<"/", "/">>, <<"/", "*">>}

\* C1 as claimed: once the parser is in Done, a following character that is
\* neither white space nor part of a comment makes parse raise
\* ParseException, whatever token it is, so that the result is never changed
\* by what follows the complete value.
C1_TrailingTextRaises ==
  TrailingToken => \A build \in Builds : Run(state, build).status = "ParseException"

\* C2 as claimed: with the comment option off, no text that holds a comment
\* outside a string is parsed to the end.
C2_CommentsRejectedWhenOff ==
  (state.status = "done" /\ ~state.opt.comment) => ~CommentOutsideString(state.json, 1, FALSE)

\* C3 as claimed: parse(v.stringify()) returns, and returns a value equal
\* to v.
C3_RoundTrip ==
  last.op = "parse" =>
    /\ state.status = "done"
    /\ ValueOf(state.h, Result) = ValueOf(heap, RootA)

\* ================================================ properties of the pointers
\* C5 as claimed: operator[](Pointer) raises nothing; it returns what at
\* returns when at returns, and m_emptyJson when at throws.
C5_SubscriptPointerNeverRaises ==
  last.op = "operator[](Pointer)" =>
    LET r == atPointer(heap, last.this, last.pointer, last.build)
    IN /\ last.throws = ""
       /\ last.ref = (IF r.throws = "" THEN r.ref ELSE EmptyJson)

\* C8 as claimed, for a pointer of one all-digit token resolved in an
\* Array: at raises out_of_range exactly when the token's value is not
\* below the length, and returns the element of that index otherwise.
C8_IndexTokenIsNotTruncated ==
  (/\ last.op = "at(Pointer)"
   /\ heap[last.this].type = "Array"
   /\ Len(last.pointer) > 1
   /\ Head(last.pointer) = "/"
   /\ IsDigitsText(Tail(last.pointer))) =>
    LET mag == StripZeros(DigitVals(Tail(last.pointer)))
        n == Len(heap[last.this].a)
        below == Len(mag) = 1 /\ mag[1] < n
    IN IF below
       THEN last.throws = "" /\ last.ref = heap[last.this].a[mag[1] + 1]
       ELSE last.throws = "out_of_range"


\* ============================================== properties of the value tree
IsValue(c) == c.type \in {"Null", "Bool", "Float", "Int", "String", "Array", "Map"}

NullValue == ValueOf(NewHeap(0), EmptyJson)

\* C4: v.at(key) and v.at(index) throw out_of_range exactly when the const
\* v[key] / v[index] returns the shared m_emptyJson, which is exactly when v
\* is not a Map / not an Array or the key is missing / the index is not below
\* the length; otherwise at returns the reference the const operator[]
\* returns, an element of v.
C4_AtThrowsIffSubscriptDefaults ==
  /\ last.op = "at(key)" =>
       LET d == SubscriptKeyConst(heap, last.this, last.key)
           absent == \/ heap[last.this].type # "Map"
                     \/ \A k \in DOMAIN heap[last.this].m :
                          heap[last.this].m[k].k # last.key
       IN /\ last.throws \in {"", "out_of_range"}
          /\ (last.throws = "out_of_range") <=> (d = EmptyJson)
          /\ (d = EmptyJson) <=> absent
          /\ last.throws = "" => last.ref = d /\ d \in Children(heap, last.this)
  /\ last.op = "at(index)" =>
       LET d == SubscriptIndexConst(heap, last.this, last.index)
           absent == \/ heap[last.this].type # "Array"
                     \/ last.index >= Len(heap[last.this].a)
       IN /\ last.throws \in {"", "out_of_range"}
          /\ (last.throws = "out_of_range") <=> (d = EmptyJson)
          /\ (d = EmptyJson) <=> absent
          /\ last.throws = "" => last.ref = d /\ d \in Children(heap, last.this)

\* at(index) has returned the second element of an array.
C4_Witness ==
  /\ last.op = "at(index)"
  /\ last.index = 1
  /\ last.throws = ""
  /\ last.ref \in Children(heap, last.this)

IsMove(call) == call.op \in {"JsonT(JsonT&&)", "operator=(JsonT&&)"}

\* C6 as claimed: after a move construction or a move assignment from s the
\* destination equals what s held and s is Null.
C6_MovedFromIsNull ==
  [][IsMove(last') =>
       /\ ValueOf(heap', last'.self) = ValueOf(heap, last'.src)
       /\ isNull(heap', last'.srcNow)]_<<heap, last>>

\* C6 amended: after a move construction or a move assignment from s the
\* destination equals what s held; s keeps its kind: a Null, Bool, Int or
\* Float source is unchanged, an Array or Map source is left empty, a String
\* source is left a String.
C6_MoveKeepsSourceKind ==
  [][IsMove(last') =>
       LET t == heap[last'.src].type
       IN /\ ValueOf(heap', last'.self) = ValueOf(heap, last'.src)
          /\ heap'[last'.srcNow].type = t
          /\ t \in {"Null", "Bool", "Int", "Float"} =>
               heap'[last'.srcNow] = heap[last'.src]
          /\ t \in {"Array", "Map"} => SizeOf(heap', last'.srcNow) = 0
          /\ isNull(heap', last'.srcNow) <=> t = "Null"]_<<heap, last>>

\* b has been move-assigned an array with an element; the source is an empty
\* array, not Null.
C6_Witness ==
  /\ last.op = "operator=(JsonT&&)"
  /\ heap[last.self].type = "Array"
  /\ SizeOf(heap, last.self) > 0
  /\ heap[last.srcNow].type = "Array"

\* C7: v[index] = x leaves v an Array whose entry index equals x; a receiver
\* that was no Array counts as length 0; the length becomes index + 1 when it
\* was not above index and is unchanged otherwise; the entries below the old
\* length are unchanged and the new entries below index are Null.  Every
\* element of every array or map is a constructed JsonT.
C7_IndexedWriteAutovivifies ==
  /\ [](\A x \in Live(heap) : \A c \in Children(heap, x) : IsValue(heap[c]))
  /\ [][last'.op = "operator[](index)=" =>
          LET pre == ValueOf(heap, last'.this)
              post == ValueOf(heap', last'.self)
              i == last'.index
              n == IF pre.type = "Array" THEN Len(pre.a) ELSE 0
          IN /\ post.type = "Array"
             /\ Len(post.a) = (IF i < n THEN n ELSE i + 1)
             /\ post.a[i + 1] = ValueOf([x \in {0} |-> last'.arg], 0)
             /\ last'.ref = heap'[last'.self].a[i + 1]
             /\ \A k \in 1..Len(post.a) :
                  k # i + 1 => post.a[k] = (IF k <= n THEN pre.a[k] ELSE NullValue)
     ]_<<heap, last>>

\* v[2] = x was called on a value that was no Array: three entries, the
\* first two Null.
C7_Witness ==
  /\ last.op = "operator[](index)="
  /\ last.index = 2
  /\ last.was # "Array"
  /\ SizeOf(heap, last.self) = 3
  /\ isNull(heap, heap[last.self].a[1])
  /\ isNull(heap, heap[last.self].a[2])
  /\ ~isNull(heap, heap[last.self].a[3])

\* C9: erase returns true exactly when the receiver is of the matching kind
\* and holds the key / index.  When it returns false nothing changes; when
\* it returns true the receiver has lost exactly that entry (later array
\* elements one index down, the other map entries as they were) and the
\* caller's other variable is unchanged.
C9_EraseRemovesExactlyOne ==
  [][/\ last'.op = "erase(key)" =>
          LET pre == ValueOf(heap, last'.this)
              post == ValueOf(heap', last'.self)
              i == IF pre.type = "Map" THEN MapFind(pre.m, last'.key) ELSE 0
          IN /\ last'.ret <=> i # 0
             /\ ~last'.ret => heap' = heap
             /\ last'.ret => /\ post.type = "Map"
                             /\ post.m = SeqRemove(pre.m, i)
                             /\ \A r \in Roots :
                                  last'.this \notin Subtree(heap, r) =>
                                    ValueOf(heap', r) = ValueOf(heap, r)
     /\ last'.op = "erase(index)" =>
          LET pre == ValueOf(heap, last'.this)
              post == ValueOf(heap', last'.self)
              has == pre.type = "Array" /\ last'.index < Len(pre.a)
          IN /\ last'.ret <=> has
             /\ ~last'.ret => heap' = heap
             /\ last'.ret => /\ post.type = "Array"
                             /\ Len(post.a) = Len(pre.a) - 1
                             /\ post.a = SeqRemove(pre.a, last'.index + 1)
                             /\ \A r \in Roots :
                                  last'.this \notin Subtree(heap, r) =>
                                    ValueOf(heap', r) = ValueOf(heap, r)
    ]_<<heap, last>>

\* The first of three elements was erased; the two that are left differ.
C9_Witness ==
  /\ last.op = "erase(index)"
  /\ last.ret
  /\ last.index = 0
  /\ last.n = 3
  /\ SizeOf(heap, last.self) = 2
  /\ ValueOf(heap, heap[last.self].a[1]) # ValueOf(heap, heap[last.self].a[2])

IsCopy(call) == call.op \in {"JsonT(const JsonT&)", "operator=(const JsonT&)"}

\* The variable in whose tree cell x lies.
RootOf(h, x) == IF x \in Subtree(h, RootA) THEN RootA ELSE RootB
OtherRoot(r) == IF r = RootA THEN RootB ELSE RootA

\* C10: a and b never share an element; a copy construction or a copy
\* assignment leaves the destination equal to the source and the source as
\* it was; and a call on b or on an element of b (other than a move out of
\* a) leaves a as it was, and the same with a and b exchanged.
C10_CopiesAreIndependent ==
  /\ [](Subtree(heap, RootA) \cap Subtree(heap, RootB) = {})
  /\ [][/\ IsCopy(last') =>
             /\ ValueOf(heap', last'.self) = ValueOf(heap, last'.src)
             /\ ValueOf(heap', last'.srcNow) = ValueOf(heap, last'.src)
        /\ (last'.op # "" /\ ~IsMove(last')) =>
             LET o == OtherRoot(RootOf(heap, last'.this))
             IN ValueOf(heap', o) = ValueOf(heap, o)
       ]_<<heap, last>>

\* b was made a copy of a, an array that holds an array.
C10_Witness ==
  /\ IsCopy(last)
  /\ last.src = RootA
  /\ last.self = RootB
  /\ heap[RootA].type = "Array"
  /\ \E c \in Children(heap, RootA) : heap[c].type = "Array"
  /\ ValueOf(heap, RootA) = ValueOf(heap, RootB)

\* ============================================ properties of parse, continued
\* From p on inside a string literal of json, a backslash that begins none of
\* \" \r \t \b \/ \\ and \u with four hex digits stands before the closing
\* quote.
RECURSIVE BadEscapeIn(_, _)
BadEscapeIn(json, p) ==
  IF p > Len(json) \/ json[p] = "\"" THEN FALSE
  ELSE IF json[p] # "\\" THEN BadEscapeIn(json, p + 1)
  ELSE IF p + 1 <= Len(json) /\ json[p + 1] \in {"\"", "r", "t", "b", "/", "\\"}
  THEN BadEscapeIn(json, p + 2)
  ELSE IF /\ p + 5 <= Len(json)
          /\ json[p + 1] = "u"
          /\ \A k \in 2..5 : IsHex(json[p + k])
  THEN BadEscapeIn(json, p + 6)
  ELSE TRUE

\* C11 as claimed: a text that is a string literal with a backslash that
\* begins no supported escape is never parsed to the end.
C11_BadEscapeRaises ==
  (state.status = "done" /\ state.json # <<>> /\ state.json[1] = "\"") =>
    ~BadEscapeIn(state.json, 2)

\* C12: a text in which the key "a" stands twice in one object is parsed to
\* the end, and the Map then holds one entry for "a", whose value is that of
\* the last occurrence alone.
C12_LastKeyWins ==
  \A d \in DupCases :
    state.json = d.text =>
      /\ state.status \in {"run", "done"}
      /\ state.status = "done" => ValueOf(state.h, Result) = d.value

\* The key "a" held an array, then another array, and the text was parsed
\* to the end.
C12_Witness ==
  /\ state.status = "done"
  /\ \E d \in DupCases :
       /\ state.json = d.text
       /\ d.first.type = "Array"
       /\ d.second.type = "Array"
       /\ d.first # d.second
       /\ ValueOf(state.h, Result) = d.value
       /\ d.value.type = "Map"
       /\ Len(d.value.m) = 1

\* The end of the run of digits of t that starts at p.
RECURSIVE RunEnd(_, _)
RunEnd(t, p) == IF p <= Len(t) /\ t[p] \in Digits THEN RunEnd(t, p + 1) ELSE p

\* The parts of t read as -?[0-9]+(\.[0-9]*)?([eE][+-]?[0-9]+)?: the start
\* and end of the integer digits, the end of the fraction, the start and end
\* of the exponent digits (0 and 0 without exponent).
NumberParts(t) ==
  LET i0 == IF t # <<>> /\ t[1] = "-" THEN 2 ELSE 1
      i1 == RunEnd(t, i0)
      f1 == IF i1 <= Len(t) /\ t[i1] = "." THEN RunEnd(t, i1 + 1) ELSE i1
      hasExp == f1 <= Len(t) /\ t[f1] \in {"e", "E"}
      e0 == IF f1 + 1 <= Len(t) /\ t[f1 + 1] \in {"+", "-"} THEN f1 + 2 ELSE f1 + 1
      e1 == RunEnd(t, e0)
  IN [i0 |-> i0, i1 |-> i1, f1 |-> f1, hasExp |-> hasExp,
      e0 |-> IF hasExp THEN e0 ELSE 0, e1 |-> IF hasExp THEN e1 ELSE 0]

\* t as a whole is one number token.
IsNumberText(t) ==
  LET n == NumberParts(t)
  IN /\ n.i1 > n.i0
     /\ IF n.hasExp THEN n.e1 > n.e0 /\ n.e1 = Len(t) + 1 ELSE n.f1 = Len(t) + 1

\* t is -?[0-9]+ and its value lies in the range of std::intmax_t.
IsIntMaxText(t) ==
  LET n == NumberParts(t)
  IN /\ n.i1 > n.i0
     /\ n.i1 = Len(t) + 1
     /\ MagLessEq(StripZeros(DigitVals(SubSeq(t, n.i0, Len(t)))),
                  IF n.i0 = 2 THEN IntMinMag ELSE IntMaxMag)

\* C14: a text that is one number token is parsed as the Int of exactly its
\* value when it is -?[0-9]+ within the range of std::intmax_t; every other
\* number token that parse accepts is a Float, and parse accepts every one
\* without an exponent or with an exponent of at most two digits; a text
\* with a leading '+' raises ParseException.  So "1" is an Int, "1.0" a
\* Float, and the two values differ.
C14_NumberClassification ==
  (state.status # "run" /\ state.json \in NumberTexts) =>
    LET t == state.json
        n == NumberParts(t)
        r == ValueOf(state.h, Result)
    IN /\ t[1] = "+" => state.status = "ParseException"
       /\ ~IsNumberText(t) => state.status = "ParseException"
       /\ (IsNumberText(t) /\ IsIntMaxText(t)) =>
            /\ state.status = "done"
            /\ r = IntCell(MkInt(n.i0 = 2, DigitVals(SubSeq(t, n.i0, Len(t)))))
       /\ (IsNumberText(t) /\ ~IsIntMaxText(t)) =>
            /\ state.status \in {"done", "ParseException"}
            /\ state.status = "done" => r.type = "Float"
            /\ n.e1 - n.e0 <= 2 => state.status = "done"
       /\ (t = <<"1", ".", "0">>) => r # IntCell(IntOne)

\* An integer literal one above the largest std::intmax_t was parsed: a
\* Float.
C14_Witness ==
  /\ state.status = "done"
  /\ IsNumberText(state.json)
  /\ Len(state.json) = 19
  /\ ~IsIntMaxText(state.json)
  /\ state.h[Result].type = "Float"

\* The end of the text is reached.
AtEnd(st) == st.it = Len(st.json) + 1

\* C19: when the end of the text is reached outside bFinish (Done) parse
\* throws ParseException; and parse returns only at the end of the text in
\* bFinish, the result as the parser built it.
C19_EndOnlyInDone ==
  [][/\ (state.status = "run" /\ AtEnd(state) /\ ~state.flags.bFinish) =>
          state'.status = "ParseException"
     /\ state'.status = "done" =>
          /\ state.status = "run"
          /\ AtEnd(state)
          /\ state.flags.bFinish
          /\ state' = [state EXCEPT !.status = "done"]
    ]_state

\* The text ended behind an object's key, where a colon was due:
\* ParseException.
C19_Witness ==
  /\ state.status = "ParseException"
  /\ state.json # <<>>
  /\ AtEnd(state)
  /\ state.flags.objectKey = 2

\* The character the next token starts with, "" at the end of the line.
NextChar(st) ==
  LET p == SkipSpace(st.json, st.it, LineEnd(st.json, st.it))
  IN IF p <= Len(st.json) THEN st.json[p] ELSE ""

\* The kind of the innermost open container: that of the top of parents
\* unless the parser is in Done or the top is no container; "" when none
\* is open.
InnermostOpen(st) ==
  IF ~st.flags.bFinish /\ st.h[Top(st)].type \in {"Array", "Map"}
  THEN st.h[Top(st)].type ELSE ""

BracketKind(c) == IF c = "}" THEN "Map" ELSE "Array"

\* C20 as claimed: a '}' or ']' the parser accepts closes the innermost open
\* container, which is of the bracket's kind; the parser is then in Done if
\* that was the root and in the comma-or-close state of the kind of the new
\* top otherwise; a closing bracket of the other kind raises
\* ParseException.
C20_BracketsMatch ==
  [][(state.status = "run" /\ LoopHead(state) = "token"
        /\ NextChar(state) \in {"}", "]"}) =>
       /\ state'.status \in {"run", "ParseException"}
       /\ state'.status = "run" =>
            /\ InnermostOpen(state) = BracketKind(NextChar(state))
            /\ IF Len(state.parents) = 1
               THEN state'.flags = [FlagsZero EXCEPT !.bFinish = TRUE]
               ELSE /\ state'.parents = PopBack(state.parents)
                    /\ state'.flags =
                         [FlagsZero EXCEPT
                            !.end = IF state.h[Top(state')].type = "Map" THEN 2 ELSE 4]
       /\ (InnermostOpen(state) # "" /\ InnermostOpen(state) # BracketKind(NextChar(state))) =>
            state'.status = "ParseException"
    ]_state

\* ====================================== properties of the pointers, continued
\* C15 as claimed: at with the empty pointer returns the receiver, and at
\* with a pointer that is not empty and does not start with '/' throws
\* out_of_range and nothing else.
C15_LeadingSegment ==
  last.op = "at(Pointer)" =>
    /\ last.pointer = <<>> => (last.throws = "" /\ last.ref = last.this)
    /\ (last.pointer # <<>> /\ Head(last.pointer) # "/") => last.throws = "out_of_range"

\* esc(k): every '~' of k replaced by "~0" and every '/' by "~1".
RECURSIVE PointerEscape(_)
PointerEscape(k) ==
  IF k = <<>> THEN <<>>
  ELSE (CASE Head(k) = "~" -> <<"~", "0">>
          [] Head(k) = "/" -> <<"~", "1">>
          [] OTHER -> <<Head(k)>>) \o PointerEscape(Tail(k))

\* C16 as claimed: for a Map m and a key k of m that is not all digits, at
\* with the pointer "/" + esc(k) returns the entry of m under k.
C16_EscapedKeyAddressesEntry ==
  (last.op = "at(Pointer)" /\ heap[last.this].type = "Map") =>
    \A i \in DOMAIN heap[last.this].m :
      LET e == heap[last.this].m[i]
      IN (~IsDigitsText(e.k) /\ last.pointer = <<"/">> \o PointerEscape(e.k)) =>
           (last.throws = "" /\ last.ref = e.v)

\* ================================== properties of the value tree, continued
\* C13: the const v[key] and v[index] throw nothing and change nothing; they
\* return the element under the key / at the index when v is a Map holding
\* the key / an Array longer than the index, and the shared m_emptyJson
\* otherwise; m_emptyJson is Null in every reachable state.
C13_ConstSubscriptIsPure ==
  /\ [](heap[EmptyJson] = NullCell /\ EmptyJson \notin UNION {Children(heap, x) : x \in Live(heap)})
  /\ [][/\ last'.op = "operator[](key) const" =>
            LET c == heap[last'.this]
                at == IF c.type = "Map"
                      THEN {k \in DOMAIN c.m : c.m[k].k = last'.key} ELSE {}
            IN /\ heap' = heap
               /\ last'.throws = ""
               /\ at = {} => last'.ref = EmptyJson
               /\ \A k \in at : last'.ref = c.m[k].v
        /\ last'.op = "operator[](index) const" =>
            LET c == heap[last'.this]
            IN /\ heap' = heap
               /\ last'.throws = ""
               /\ last'.ref = (IF c.type = "Array" /\ last'.index < Len(c.a)
                               THEN c.a[last'.index + 1] ELSE EmptyJson)
       ]_<<heap, last>>

\* The const v[key] was called on a Map that holds another key only and
\* returned m_emptyJson.
C13_Witness ==
  /\ last.op = "operator[](key) const"
  /\ heap[last.this].type = "Map"
  /\ SizeOf(heap, last.this) = 1
  /\ heap[last.this].m[1].k # last.key
  /\ last.ref = EmptyJson

\* C17: ensureMap / ensureArray change nothing when the receiver is a Map /
\* an Array already, and leave an empty Map / Array in place of any other
\* value; both return the receiver.  The mutable v[key] leaves v a Map: as
\* it was when it held the key; otherwise with one more entry, key with the
\* value Null, beside the entries it had as a Map (none when it was no
\* Map); it returns the entry of key.
C17_EnsureKeepsOrResets ==
  [][/\ last'.op = "ensureMap" =>
          /\ last'.was = "Map" => heap' = heap
          /\ last'.was # "Map" => ValueOf(heap', last'.self) = MapTree(<<>>)
          /\ last'.ref = last'.self
     /\ last'.op = "ensureArray" =>
          /\ last'.was = "Array" => heap' = heap
          /\ last'.was # "Array" => ValueOf(heap', last'.self) = ArrayTree(<<>>)
          /\ last'.ref = last'.self
     /\ last'.op = "operator[](key)" =>
          LET pre == ValueOf(heap, last'.this)
              post == ValueOf(heap', last'.self)
              old == IF pre.type = "Map" THEN pre.m ELSE <<>>
              had == \E k \in DOMAIN old : old[k].k = last'.key
              at == {k \in DOMAIN post.m : post.m[k].k = last'.key}
          IN /\ post.type = "Map"
             /\ Cardinality(at) = 1
             /\ \A k \in at : last'.ref = heap'[last'.self].m[k].v
             /\ had => heap' = heap
             /\ ~had =>
                  /\ Len(post.m) = Len(old) + 1
                  /\ \A k \in at : /\ post.m[k].v = NullValue
                                    /\ SeqRemove(post.m, k) = old
    ]_<<heap, last>>

\* r = v[key] was called on a Map that held one other key: two entries now,
\* the new one Null.
C17_Witness ==
  /\ last.op = "operator[](key)"
  /\ last.was = "Map"
  /\ last.n = 1
  /\ SizeOf(heap, last.self) = 2
  /\ isNull(heap, last.ref)
  /\ last.ref \in Children(heap, last.self)

\* The text of a value given as a tree, its map entries taken as a set and
\* written in ascending key order, without white space.
RECURSIVE Render(_), RenderSeq(_), RenderEntries(_)
Render(v) ==
  CASE v.type = "Array" -> <<"[">> \o RenderSeq(v.a) \o <<"]">>
    [] v.type = "Map" -> <<"{">> \o RenderEntries({v.m[k] : k \in DOMAIN v.m}) \o <<"}">>
    [] OTHER -> stringify([x \in {0} |-> v], 0)

RenderSeq(a) ==
  IF a = <<>> THEN <<>>
  ELSE Render(Head(a)) \o (IF Len(a) > 1 THEN <<",">> \o RenderSeq(Tail(a)) ELSE <<>>)

RenderEntries(S) ==
  IF S = {} THEN <<>>
  ELSE LET e == CHOOSE x \in S : \A o \in S \ {x} : StrLess(x.k, o.k)
       IN <<"\"">> \o fEscape(e.k) \o <<"\"", ":">> \o Render(e.v)
            \o (IF S = {e} THEN <<>> ELSE <<",">> \o RenderEntries(S \ {e}))

\* C18: stringify changes nothing and returns the text of the value with
\* the entries of every Map in ascending key order, no white space, "[]"
\* for an empty Array and "{}" for an empty Map; two equal values, however
\* they were built, have the same text.
C18_StringifyDependsOnValue ==
  /\ [](\A x \in Live(heap), y \in Live(heap) :
          ValueOf(heap, x) = ValueOf(heap, y) => stringify(heap, x) = stringify(heap, y))
  /\ [][last'.op = "stringify" =>
          /\ heap' = heap
          /\ last'.text = Render(ValueOf(heap, last'.this))
          /\ \A k \in DOMAIN last'.text : ~IsSpace(last'.text[k])
          /\ (last'.was = "Array" /\ last'.n = 0) => last'.text = <<"[", "]">>
          /\ (last'.was = "Map" /\ last'.n = 0) => last'.text = <<"{", "}">>
     ]_<<heap, last>>

\* stringify was called on a Map of two entries: key "a" stands first.
C18_Witness ==
  /\ last.op = "stringify"
  /\ last.was = "Map"
  /\ last.n = 2
  /\ SubSeq(last.text, 1, 5) = <<"{", "\"", "a", "\"", ":">>

\* =========================================== properties of parse, concluded
\* The brackets the first n characters of t open and do not close (the
\* strings of the well-formed texts hold no bracket).
RECURSIVE OpenBrackets(_, _)
OpenBrackets(t, n) ==
  IF n = 0 THEN 0
  ELSE OpenBrackets(t, n - 1)
         + (IF t[n] \in {"{", "["} THEN 1 ELSE IF t[n] \in {"}", "]"} THEN -1 ELSE 0)

\* The containers open inside the root's after the first n characters of t.
NestedOpen(t, n) == IF OpenBrackets(t, n) > 1 THEN OpenBrackets(t, n) - 1 ELSE 0

\* A key has been read and its value has neither been stored nor begun.
KeyPending(st) == st.flags.objectKey = 2 \/ st.flags.value = 1

IsWellFormed(t) == \E c \in WellFormedCases : c.text = t

\* What a turn of the loop may change in the tree: the innermost container
\* (the top of parents) and storage that held no object.  An Array at the top
\* keeps its elements and gets at most one more behind them; a Map at the top
\* keeps its entries.
StoresInInnermost(st, next) ==
  LET t == Top(st)
  IN /\ \A x \in DOMAIN st.h :
          (x # t /\ st.h[x].type # "Free") => next.h[x] = st.h[x]
     /\ st.h[t].type = "Array" =>
          /\ next.h[t].type = "Array"
          /\ Len(next.h[t].a) \in {Len(st.h[t].a), Len(st.h[t].a) + 1}
          /\ SubSeq(next.h[t].a, 1, Len(st.h[t].a)) = st.h[t].a
     /\ st.h[t].type = "Map" =>
          /\ next.h[t].type = "Map"
          /\ \A k \in DOMAIN st.h[t].m : \E j \in DOMAIN next.h[t].m : next.h[t].m[j] = st.h[t].m[k]

\* C21: a well-formed text of nested objects, arrays and the scalars 1, null,
\* true and "a" is parsed to the end, and the result is the value the text
\* stands for: every turn stores into the innermost open container only (an
\* element behind the elements of the array, an entry into the object), and
\* parents holds, above the root, one entry for each open nested container
\* and one more while a key waits for its value.
C21_TreeByContainerStack ==
  /\ [](IsWellFormed(state.json) =>
          /\ state.status \in {"run", "done"}
          /\ state.status = "done" =>
               \A c \in WellFormedCases :
                 c.text = state.json => ValueOf(state.h, Result) = c.value
          /\ Len(state.parents) - 1 =
               NestedOpen(state.json, state.it - 1) + (IF KeyPending(state) THEN 1 ELSE 0))
  /\ [][(IsWellFormed(state.json) /\ state.status = "run") =>
          StoresInInnermost(state, state')]_state

\* A text of three levels was parsed to the end: an array whose first element
\* is an array that holds an object and, behind it, a scalar.
C21_Witness ==
  /\ state.status = "done"
  /\ \E c \in WellFormedCases :
       /\ c.text = state.json
       /\ ValueOf(state.h, Result) = c.value
       /\ c.value.type = "Array"
       /\ Len(c.value.a) = 2
       /\ c.value.a[1].type = "Array"
       /\ Len(c.value.a[1].a) = 2
       /\ c.value.a[1].a[1].type = "Map"
       /\ Len(c.value.a[1].a[1].m) = 1
       /\ c.value.a[1].a[2].type = "Int"
       /\ c.value.a[2].type = "Int"

\* The flags right after '{', right after '[', and after a comma in an
\* object and in an array.
AfterObjectBegin == [FlagsZero EXCEPT !.objectKey = 1, !.end = 1]
AfterArrayBegin == [FlagsZero EXCEPT !.bBegin = TRUE, !.value = 2, !.end = 3]
AfterObjectComma == [FlagsZero EXCEPT !.objectKey = 1]
AfterArrayComma == [FlagsZero EXCEPT !.bBegin = TRUE, !.value = 2]

\* The next token of st begins with the character c.
NextIs(st, c) ==
  /\ st.it <= Len(st.json)
  /\ HasNonSpace(st.json, st.it, LineEnd(st.json, st.it))
  /\ NextChar(st) = c

\* C22 as claimed: a ',' is accepted only after a completed value inside an
\* object or array, and puts the parser into the state it is in right after
\* '{' (a key or '}' comes next) or right after '[' (a value or ']' comes
\* next).
C22_CommaReturnsToOpenState ==
  [][(Gets({<<",">>}) /\ state'.status = "run") =>
       /\ state.flags.end \in {2, 4}
       /\ state'.flags =
            IF state.h[Top(state)].type = "Map" THEN AfterObjectBegin ELSE AfterArrayBegin
    ]_state

\* C22, amended: a ',' is accepted only in the comma-or-close state of the
\* Map or Array at the top of parents, which the parser enters only by a
\* value token or a closing bracket; after it the parser expects a key alone
\* in an object and a value alone in an array, so that a '}' or ']' that
\* follows the comma raises ParseException.
C22_CommaExpectsMember ==
  /\ [][Gets({<<",">>}) =>
          /\ state'.status \in {"run", "ParseException"}
          /\ state'.status = "run" <=> state.flags.end \in {2, 4}
          /\ state'.status = "run" =>
               /\ state.h[Top(state)].type = (IF state.flags.end = 2 THEN "Map" ELSE "Array")
               /\ state' = [Taken(state) EXCEPT
                              !.flags = IF state.flags.end = 2
                                        THEN AfterObjectComma ELSE AfterArrayComma]
       ]_state
  /\ [][(state'.status = "run" /\ state'.flags # state.flags /\ state'.flags.end \in {2, 4}) =>
          /\ Meets("token")
          /\ sTokenOf(state) \notin {<<"{">>, <<"[">>, <<":">>, <<",">>, <<"/", "/">>, <<"/", "*">>}
       ]_state
  /\ [][(state.status = "run" /\ state.flags \in {AfterObjectComma, AfterArrayComma}
           /\ (NextIs(state, "}") \/ NextIs(state, "]"))) =>
          state'.status = "ParseException"
       ]_state

\* A '}' right after the comma of an object has raised ParseException.
C22_Witness ==
  /\ state.status = "ParseException"
  /\ state.flags = AfterObjectComma
  /\ state.h[Top(state)].type = "Map"
  /\ state.h[Top(state)].m # <<>>
  /\ NextIs(state, "}")

\* C23: parse comes to an end on every text: each turn of the loop either
\* moves the cursor forward (a blank line, a comment, a token) or ends the
\* parse by the return or by ParseException; the cursor never moves back and
\* never passes the end of the text.
C23_ParseTerminates ==
  /\ [](state.it \in 1..(Len(state.json) + 1))
  /\ [][state.status = "run" =>
          /\ state'.it >= state.it
          /\ state'.it > state.it \/ state'.status \in {"done", "ParseException"}
       ]_state
  /\ (state.status = "run") ~> (state.status # "run")

\* A text of several lines that ends with a blank one was read to its end.
C23_Witness ==
  /\ state.status = "done"
  /\ state.it = Len(state.json) + 1
  /\ state.json[Len(state.json)] = "LF"
  /\ Cardinality({p \in DOMAIN state.json : state.json[p] = "LF"}) >= 3

\* ================================== properties of the value tree, concluded
\* C24 as claimed: after v = v[k], with v[k] an element of v at any depth, v
\* equals the value the element had before the assignment.
C24_AssignFromElement ==
  last.op = "operator=(const JsonT&) from an element" =>
    /\ last.throws = ""
    /\ ValueOf(heap, last.self) = last.arg

====
